---- MODULE Spec2Model ----
(***************************************************************************)
(* A model of the classroom content-filtering backend: the JSON policy     *)
(* document (data.json), the scene store (scenes.json), the request        *)
(* handlers of app.py that read and write them, and the schedule           *)
(* evaluator of ai_routes.py.                                              *)
(*                                                                         *)
(* Python values are represented as follows.                               *)
(*   - an optional value (None / a missing dict key) is a sequence of      *)
(*     length 0 or 1: None is <<>>, a present value x is <<x>>;            *)
(*   - a list is a sequence;                                               *)
(*   - a dict whose keys the code tests with "in" is a function whose      *)
(*     DOMAIN is the set of present keys;                                  *)
(*   - a dict that the code only reads with .get(k, []) / setdefault(k,[]) *)
(*     is a total function in which the empty list stands for a missing    *)
(*     key too.                                                            *)
(***************************************************************************)
EXTENDS Integers, Sequences, FiniteSets, TLC

\* ---------------------------------------------------------------- bounds
\* Commands enqueued in one behaviour (each gets a fresh identity).
MaxCmds == 2
\* Readings of the millisecond clock that names created scenes.
MaxClock == 1
\* Scenes held by the scene store.
MaxScenes == 2
\* Scenes held by the scene store where resolve's merge is explored.
MergeScenes == 1

\* ------------------------------------------------------ program constants
\* arr[:] = arr[-50:] in the per-student enqueue handlers.
PendingCap == 50
\* timeline[-500:], hist[-200:] and shot_log[:10] in api_heartbeat.
HistoryCap == 500
ShotCap == 200
ShotLogTake == 10
\* d["audit"] = log[-500:] in log_action.
AuditCap == 500

\* ------------------------------------------------------------ input sets
Students == {"s1", "s2"}
\* Student ids as they arrive in a request body, before .strip().
RawStudents == {"s1", " s1 ", "s2", ""}
\* One user that passes the teacher-or-admin check and one that fails it.
StaffOrNot == {"anon", "teacher"}
Targets == Students \cup {"*"}
TabActions == {"restore_tabs", "bogus"}
UrlLists == {<<>>, <<"u1">>}

\* Request threads of the server (Flask serves each request in a thread).
Workers == {"w1", "w2"}

None == <<>>
Some(x) == <<x>>
\* dict.get(key, default) on an optional field.
Get(opt, default) == IF opt = None THEN default ELSE opt[1]

\* (b.get("student") or "").strip()
strip(raw) ==
  CASE raw = " s1 " -> "s1"
    [] OTHER        -> raw

IsStaff(u) == u \in {"teacher", "admin"}

VARIABLES
  d,            \* the policy document, data.json
  scenes,       \* the scene store, scenes.json
  clock,        \* last reading of time.time() in milliseconds
  nextId,       \* number of commands enqueued so far
  req,          \* the request handled by the last step
  resp,         \* its response
  threads,      \* request threads in flight: where each is, what it holds
  origin,       \* history: command id -> the enqueue request that made it
  sincePolicy,  \* history: student -> ids enqueued since its last resolve
  sincePoll,    \* history: student -> ids enqueued since its last GET poll
  delivered,    \* history: command id -> times a resolve returned it
  lastPolicy,   \* history: student -> last resolve response, and whether
                \* it is the first, since the stored policy last changed
  prevCurrent,  \* history: the current scene before the last request
  eval,         \* the schedule on file, the local time, and what
                \* _is_schedule_active answered for them
  call,         \* a call of classify: its url, html, what a fetch of the
                \* page would return, and its result
  db,           \* gschool.db: categories, category_schedules, and the
                \* blocked_redirect setting and allowlist override read
                \* by api_classify
  PRESENT,      \* the signaling rooms held in memory: room -> candidate
                \* buckets of the two sides, per client id
  cleared,      \* history: candidate ids posted to a room that was
                \* ended afterwards
  audit         \* the "audit" list of data.json, followed where
                \* log_action is explored

progVars == <<d, scenes, clock, nextId, req, resp, threads>>
histVars ==
  <<origin, sincePolicy, sincePoll, delivered, lastPolicy, prevCurrent>>
aiVars == <<eval, call, db>>
memVars == <<PRESENT, cleared, audit>>
vars == <<progVars, histVars, aiVars, memVars>>

\* ------------------------------------------------------- policy document
EmptyOverride == [focus_mode |-> None, paused |-> None]

_safe_default_data ==
  [ settings |-> [chat_enabled |-> FALSE, blocked_redirect |-> None],
    classes |-> [period1 |->
      [ name |-> "Period 1", active |-> TRUE, focus_mode |-> FALSE,
        paused |-> FALSE, allowlist |-> <<>>, teacher_blocks |-> <<>> ]],
    categories |-> {},
    pending_commands |-> [t \in Targets |-> <<>>],
    pending_per_student |-> [s \in {} |-> <<>>],
    presence |-> [s \in {} |-> <<>>],
    history |-> [s \in {} |-> <<>>],
    screenshots |-> [s \in {} |-> <<>>],
    student_overrides |-> [s \in Students |-> EmptyOverride],
    announcements |-> "" ]

\* ensure_keys fills in missing top-level keys; every document of the model
\* carries all of them, so it returns its argument.
ensure_keys(doc) == doc

\* save_data writes ensure_keys(_coerce_to_dict(d)) to data.json.
save_data(doc) == ensure_keys(doc)

\* load_data on an existing, well-formed data.json.
load_data == ensure_keys(d)

\* d.get("pending_per_student", {}).get(student, [])
PpsGet(doc, s) ==
  IF s \in DOMAIN doc.pending_per_student
    THEN doc.pending_per_student[s] ELSE <<>>

\* Mutant of LastCap: the oldest commands are kept.
LastCap_oldest(arr) ==
  IF Len(arr) <= PendingCap THEN arr ELSE SubSeq(arr, 1, PendingCap)

\* arr[-50:]
LastCap(arr) ==
  IF Len(arr) <= PendingCap THEN arr
  ELSE SubSeq(arr, Len(arr) - PendingCap + 1, Len(arr))

\* Mutant of PpsAppend: the new command replaces the queue.
PpsAppend_overwrite(doc, s, cmd) ==
  [doc EXCEPT !.pending_per_student =
     [k \in (DOMAIN doc.pending_per_student) \cup {s} |->
        IF k = s THEN <<cmd>> ELSE doc.pending_per_student[k]]]

\* pend.setdefault(student, []).append(cmd); arr[:] = arr[-50:]
PpsAppend(doc, s, cmd) ==
  [doc EXCEPT !.pending_per_student =
     [k \in (DOMAIN doc.pending_per_student) \cup {s} |->
        IF k = s THEN LastCap(Append(PpsGet(doc, s), cmd))
        ELSE doc.pending_per_student[k]]]

\* Mutant of PpsPop: every student's queue is removed.
PpsPop_all(doc, s) ==
  [doc EXCEPT !.pending_per_student = [k \in {} |-> <<>>]]

\* d["pending_per_student"].pop(student, None)
PpsPop(doc, s) ==
  [doc EXCEPT !.pending_per_student =
     [k \in (DOMAIN doc.pending_per_student) \ {s} |->
        doc.pending_per_student[k]]]

\* d.setdefault("pending_commands", {}).setdefault(target, []).append(cmd)
PcAppend(doc, target, cmd) ==
  [doc EXCEPT !.pending_commands[target] = Append(@, cmd)]

\* A queued command. id stands for what tells two queued commands apart
\* (the position in the history of enqueues); the code's commands carry no
\* such field.
Cmd(type) == [type |-> type, id |-> nextId + 1]

Ids(cmds) == {cmds[i].id : i \in 1..Len(cmds)}
Range(seq) == {seq[i] : i \in 1..Len(seq)}

\* ------------------------------------------------------------ scene store
\* _load_scenes: the stored object with allowed / blocked / current present.
_load_scenes == scenes

\* _save_scenes: setdefault of the three keys, then write.
_save_scenes(obj) == obj

Min(S) == CHOOSE x \in S : \A y \in S : x <= y

\* first s in bucket with str(s.get("id")) == str(id)
FirstMatch(bucket, id) ==
  LET I == {i \in 1..Len(bucket) : bucket[i].id = id}
  IN IF I = {} THEN None ELSE Some(bucket[Min(I)])

\* for bucket in ("allowed", "blocked"): ... break
FindScene(store, id) ==
  LET a == FirstMatch(store.allowed, id)
  IN IF a # None THEN a ELSE FirstMatch(store.blocked, id)

\* -------------------------------------------------------------- requests
Req(op, method, target) == [op |-> op, method |-> method, target |-> target]
\* A request that is neither a resolve nor a poll.
Other == Req("other", "", "")

Forbidden == [status |-> 403, ok |-> FALSE]
Invalid == [status |-> 400, ok |-> FALSE]
NotFound == [status |-> 404, ok |-> FALSE]
Ok == [status |-> 200, ok |-> TRUE]

\* What a handler that fails before touching the stores leaves behind.
Rejected(answer) ==
  /\ resp' = answer
  /\ UNCHANGED <<d, scenes, clock, nextId, threads>>

\* POST /api/announce
api_announce(u, msg) ==
  IF ~IsStaff(u) THEN Rejected(Forbidden)
  ELSE /\ nextId < MaxCmds
       /\ d' = save_data(PcAppend([ensure_keys(load_data) EXCEPT
                                     !.announcements = msg],
                                  "*", Cmd("policy_refresh")))
       /\ nextId' = nextId + 1
       /\ resp' = Ok
       /\ UNCHANGED <<scenes, clock, threads>>

\* POST /api/command; student is b.get("student"), cmd the type of
\* b.get("command") when it is a mapping with a "type".
api_command(u, student, cmd) ==
  LET target == IF student = "" THEN "*" ELSE student
  IN IF ~IsStaff(u) THEN Rejected(Forbidden)
     ELSE IF cmd = None THEN Rejected(Invalid)
     ELSE /\ nextId < MaxCmds
          /\ d' = save_data(PcAppend(ensure_keys(load_data), target,
                                     Cmd(cmd[1])))
          /\ nextId' = nextId + 1
          /\ resp' = Ok
          /\ UNCHANGED <<scenes, clock, threads>>

\* GET and POST /api/commands/<student>; type is b.get("type").
api_commands(method, student, u, type) ==
  LET doc == ensure_keys(load_data)
  IN IF method = "GET"
     THEN /\ d' = save_data([doc EXCEPT !.pending_commands[student] = <<>>,
                                        !.pending_commands["*"] = <<>>])
          /\ resp' = [status |-> 200,
                      commands |-> doc.pending_commands[student]
                                     \o doc.pending_commands["*"]]
          /\ UNCHANGED <<scenes, clock, nextId, threads>>
     ELSE IF ~IsStaff(u) THEN Rejected(Forbidden)
     ELSE IF type = None THEN Rejected(Invalid)
     ELSE /\ nextId < MaxCmds
          /\ d' = save_data(PcAppend(doc, student, Cmd(type[1])))
          /\ nextId' = nextId + 1
          /\ resp' = Ok
          /\ UNCHANGED <<scenes, clock, threads>>

\* POST /api/open_tabs
api_open_tabs_alias(urls, raw) ==
  LET student == strip(raw)
  IN IF urls = <<>> THEN Rejected(Invalid)
     ELSE /\ nextId < MaxCmds
          /\ d' = save_data(IF student # ""
                              THEN PpsAppend(load_data, student,
                                             Cmd("open_tabs"))
                              ELSE PcAppend(load_data, "*", Cmd("open_tabs")))
          /\ nextId' = nextId + 1
          /\ resp' = Ok
          /\ UNCHANGED <<scenes, clock, threads>>

\* POST /api/student/tabs_action
api_student_tabs_action(u, raw, action) ==
  LET student == strip(raw)
  IN IF ~IsStaff(u) THEN Rejected(Forbidden)
     ELSE IF student = "" \/ action \notin {"restore_tabs", "close_tabs"}
       THEN Rejected(Invalid)
     ELSE /\ nextId < MaxCmds
          /\ d' = save_data(PpsAppend(ensure_keys(load_data), student,
                                      Cmd(action)))
          /\ nextId' = nextId + 1
          /\ resp' = Ok
          /\ UNCHANGED <<scenes, clock, threads>>

\* POST /api/student/open_tabs
api_student_open_tabs(u, raw, urls) ==
  LET student == strip(raw)
  IN IF ~IsStaff(u) THEN Rejected(Forbidden)
     ELSE IF student = "" \/ urls = <<>> THEN Rejected(Invalid)
     ELSE /\ nextId < MaxCmds
          /\ d' = save_data(PpsAppend(load_data, student, Cmd("open_tabs")))
          /\ nextId' = nextId + 1
          /\ resp' = Ok
          /\ UNCHANGED <<scenes, clock, threads>>

\* ---------------------------------------------------------------- heartbeat
\* arr[-n:]
LastN(arr, n) ==
  IF Len(arr) <= n THEN arr ELSE SubSeq(arr, Len(arr) - n + 1, Len(arr))

\* d[key].get(student), a missing student reading as dflt.
KeyGet(doc, key, s, dflt) ==
  IF s \in DOMAIN doc[key] THEN doc[key][s] ELSE dflt

\* d[key][student] = val
KeySet(doc, key, s, val) ==
  [doc EXCEPT ![key] = [k \in (DOMAIN doc[key]) \cup {s} |->
                          IF k = s THEN val ELSE doc[key][k]]]

\* A heartbeat body: the url of the current tab, the open tabs (each with
\* its id, as str() prints it, or without one), the keys of its tabshots,
\* and its shot_log, whose entries are objects (TRUE) or are not (FALSE).
HeartbeatBody(url, tabs, tabshots, shot_log) ==
  [url |-> url, tabs |-> tabs, tabshots |-> tabshots, shot_log |-> shot_log]

\* The screenshot history after the loop over shot_log[:10], which appends
\* an entry per object and stops at the first s.get that raises; the cap
\* hist[-200:] is applied when the loop ran to its end.
AppendShots(hist, shot_log, now) ==
  LET take == SubSeq(shot_log, 1,
                     IF Len(shot_log) <= ShotLogTake THEN Len(shot_log)
                     ELSE ShotLogTake)
      bad == {k \in 1..Len(take) : ~take[k]}
      stop == IF bad = {} THEN Len(take) + 1
              ELSE CHOOSE k \in bad : \A j \in bad : k <= j
      added == [k \in 1..(stop - 1) |-> [ts |-> now, tabId |-> k]]
  IN IF shot_log = <<>> THEN hist
     ELSE IF bad = {} THEN LastN(hist \o added, ShotCap)
     ELSE hist \o added

\* POST /api/heartbeat; guest is _is_guest_identity's answer for a student
\* id that is not empty; late is now - last.ts >= 15; now is the ordinal of
\* the heartbeat.
api_heartbeat(raw, guest, body, late) ==
  LET student == strip(raw)
      doc == ensure_keys(load_data)
      now == nextId + 1
      old == KeyGet(doc, "presence", student, [tabs |-> <<>>, tabshots |-> {}])
      open_ids == {body.tabs[k][1] : k \in {j \in 1..Len(body.tabs) :
                                              body.tabs[j] # None}}
      shots == (old.tabshots \cup body.tabshots) \cap open_ids
      timeline == KeyGet(doc, "history", student, <<>>)
      should_add ==
        /\ body.url # ""
        /\ \/ timeline = <<>>
           \/ timeline[Len(timeline)].url # body.url
           \/ late
      logged == IF should_add
                  THEN LastN(Append(timeline, [ts |-> now, url |-> body.url]),
                             HistoryCap)
                  ELSE timeline
      hist == KeyGet(doc, "screenshots", student, <<>>)
      with_pres == KeySet(doc, "presence", student,
                          [tabs |-> body.tabs, tabshots |-> shots])
      with_hist == KeySet(with_pres, "history", student, logged)
      with_shots == IF body.shot_log = <<>> THEN with_hist
                    ELSE KeySet(with_hist, "screenshots", student,
                                AppendShots(hist, body.shot_log, now))
  IN IF student = "" \/ guest
       THEN /\ resp' = [status |-> 200, ok |-> TRUE,
                        extension_enabled |-> FALSE]
            /\ UNCHANGED <<d, scenes, clock, nextId, threads>>
       ELSE /\ nextId < MaxCmds
            /\ d' = save_data(with_shots)
            /\ nextId' = nextId + 1
            /\ resp' = Ok
            /\ UNCHANGED <<scenes, clock, threads>>

\* ------------------------------------------------------- class and student
\* POST /api/class/toggle
api_class_toggle(u, cid, key, val) ==
  IF ~IsStaff(u) THEN Rejected(Forbidden)
  ELSE IF cid = "period1" /\ key \in {"focus_mode", "paused"}
    THEN /\ d' = save_data([ensure_keys(load_data) EXCEPT
                              !.classes.period1[key] = val])
         /\ resp' = Ok
         /\ UNCHANGED <<scenes, clock, nextId, threads>>
  ELSE Rejected(Invalid)

\* A request body of POST /api/class/set: each key present or not.
ClassSetBody(teacher_blocks, allowlist, chat_enabled, active) ==
  [teacher_blocks |-> teacher_blocks, allowlist |-> allowlist,
   chat_enabled |-> chat_enabled, active |-> active]

\* POST /api/class/set. A class that goes from inactive to active queues a
\* notify for all; every call queues a policy_refresh for all. The passcode
\* and the copies set_setting keeps in gschool.db are read by no handler
\* modelled here and are left out.
api_class_set(body) ==
  LET doc == ensure_keys(load_data)
      cls == doc.classes.period1
      prev_active == cls.active
      cls2 == [cls EXCEPT
                 !.teacher_blocks = Get(body.teacher_blocks, @),
                 !.allowlist = Get(body.allowlist, @),
                 !.active = Get(body.active, @)]
      doc2 == [doc EXCEPT !.classes.period1 = cls2,
                          !.settings.chat_enabled = Get(body.chat_enabled, @)]
      notify == cls2.active /\ ~prev_active
      doc3 == IF notify
                THEN PcAppend(doc2, "*", [type |-> "notify", id |-> nextId + 1])
                ELSE doc2
      n == IF notify THEN nextId + 1 ELSE nextId
  IN /\ n < MaxCmds
     /\ d' = save_data(PcAppend(doc3, "*",
                                [type |-> "policy_refresh", id |-> n + 1]))
     /\ nextId' = n + 1
     /\ resp' = Ok
     /\ UNCHANGED <<scenes, clock, threads>>

\* A request body of POST /api/student/set: each flag present or not.
Flags(focus_mode, paused) == [focus_mode |-> focus_mode, paused |-> paused]

\* POST /api/student/set
api_student_set(u, raw, b) ==
  LET student == strip(raw)
      doc == ensure_keys(load_data)
      ov == doc.student_overrides[student]
  IN IF ~IsStaff(u) THEN Rejected(Forbidden)
     ELSE IF student = "" THEN Rejected(Invalid)
     ELSE /\ d' = save_data([doc EXCEPT !.student_overrides[student] =
                   [focus_mode |-> IF b.focus_mode # None
                                     THEN b.focus_mode ELSE ov.focus_mode,
                    paused |-> IF b.paused # None
                                 THEN b.paused ELSE ov.paused]])
          /\ resp' = Ok
          /\ UNCHANGED <<scenes, clock, nextId, threads>>

\* ------------------------------------------------------------- scenes API
\* A request body of POST /api/scenes and of PUT /api/scenes/<sid>.
SceneBody(name, type, allow, block) ==
  [name |-> name, type |-> type, allow |-> allow, block |-> block]

NumScenes(store) == Len(store.allowed) + Len(store.blocked)

\* POST /api/scenes; the id is the clock's reading in milliseconds, cap the
\* number of scenes the store may hold.
api_scenes_create(body, cap) ==
  IF body.name = None \/ body.name = Some("")
     \/ body.type \notin {Some("allowed"), Some("blocked")}
    THEN Rejected(Invalid)
  ELSE \E t \in clock..MaxClock :
    LET store == _load_scenes
        new_scene == [id |-> t, name |-> body.name[1], type |-> body.type[1],
                      allow |-> Get(body.allow, <<>>),
                      block |-> Get(body.block, <<>>), icon |-> "blue"]
    IN /\ NumScenes(store) < cap
       /\ clock' = t
       /\ scenes' = _save_scenes(
            [store EXCEPT ![body.type[1]] = Append(@, new_scene)])
       /\ resp' = [status |-> 200, ok |-> TRUE, scene |-> new_scene]
       /\ UNCHANGED <<d, nextId, threads>>

\* s.update(body)
SceneUpdate(s, body) ==
  [s EXCEPT !.name = Get(body.name, @), !.type = Get(body.type, @),
            !.allow = Get(body.allow, @), !.block = Get(body.block, @)]

\* for s in bucket: if s.get("id") == sid: s.update(body); break
UpdateFirst(bucket, sid, body) ==
  LET I == {i \in 1..Len(bucket) : bucket[i].id = sid}
  IN IF I = {} THEN bucket
     ELSE [bucket EXCEPT ![Min(I)] = SceneUpdate(@, body)]

\* PUT /api/scenes/<sid>
api_scenes_update(sid, body) ==
  LET store == _load_scenes
  IN IF FindScene(store, sid) = None THEN Rejected(NotFound)
     ELSE /\ scenes' = _save_scenes(
               [store EXCEPT !.allowed = UpdateFirst(@, sid, body),
                             !.blocked = UpdateFirst(@, sid, body)])
          /\ resp' = Ok
          /\ UNCHANGED <<d, clock, nextId, threads>>

\* What Flask answers when the handler raises.
ServerError == [status |-> 500, ok |-> FALSE]

\* [s for s in scenes.get(bucket, []) if s.get("id") != sid]
Without(bucket, sid) == SelectSeq(bucket, LAMBDA s : s.id # sid)

\* DELETE /api/scenes/<sid>. scenes.get("current", {}) is None when no scene
\* is current (_load_scenes stores the key), and None.get raises.
api_scenes_delete(sid) ==
  LET store == _load_scenes
  IN IF store.current = None THEN Rejected(ServerError)
     ELSE /\ scenes' = _save_scenes(
               [allowed |-> Without(store.allowed, sid),
                blocked |-> Without(store.blocked, sid),
                current |-> IF store.current[1].id = sid THEN None
                            ELSE store.current])
          /\ resp' = Ok
          /\ UNCHANGED <<d, clock, nextId, threads>>

\* {"id": s["id"], "name": s.get("name"), "type": s.get("type")}
Descriptor(s) == [id |-> s.id, name |-> s.name, type |-> s.type]

\* Policy changed -> force refresh: load_data, append, save_data.
PushRefresh ==
  /\ nextId < MaxCmds
  /\ d' = save_data(PcAppend(ensure_keys(load_data), "*",
                             Cmd("policy_refresh")))
  /\ nextId' = nextId + 1

\* Mutant of api_scenes_apply: a scene that is current stays current.
api_scenes_apply_keep(u, sid, disable) ==
  LET store == _load_scenes
      found == IF sid = None THEN None ELSE FindScene(store, sid[1])
      kept == IF store.current # None THEN store.current
              ELSE Some(Descriptor(found[1]))
  IN IF ~IsStaff(u) THEN Rejected(Forbidden)
     ELSE IF disable
       THEN /\ scenes' = _save_scenes([store EXCEPT !.current = None])
            /\ PushRefresh
            /\ resp' = [status |-> 200, ok |-> TRUE, current |-> None]
            /\ UNCHANGED <<clock, threads>>
     ELSE IF sid = None THEN Rejected(Invalid)
     ELSE IF found = None THEN Rejected(NotFound)
     ELSE /\ scenes' = _save_scenes([store EXCEPT !.current = kept])
          /\ PushRefresh
          /\ resp' = [status |-> 200, ok |-> TRUE, current |-> kept]
          /\ UNCHANGED <<clock, threads>>

\* Mutant of api_scenes_apply: an id that matches no scene clears the
\* pointer and queues the refresh.
api_scenes_apply_unknown(u, sid, disable) ==
  LET store == _load_scenes
      found == IF sid = None THEN None ELSE FindScene(store, sid[1])
  IN IF ~IsStaff(u) THEN Rejected(Forbidden)
     ELSE IF disable \/ (sid # None /\ found = None)
       THEN /\ scenes' = _save_scenes([store EXCEPT !.current = None])
            /\ PushRefresh
            /\ resp' = [status |-> 200, ok |-> TRUE, current |-> None]
            /\ UNCHANGED <<clock, threads>>
     ELSE IF sid = None THEN Rejected(Invalid)
     ELSE /\ scenes' = _save_scenes(
               [store EXCEPT !.current = Some(Descriptor(found[1]))])
          /\ PushRefresh
          /\ resp' = [status |-> 200, ok |-> TRUE,
                      current |-> Some(Descriptor(found[1]))]
          /\ UNCHANGED <<clock, threads>>

\* POST /api/scenes/apply; sid is body.get("id") or body.get("scene_id").
api_scenes_apply(u, sid, disable) ==
  LET store == _load_scenes
      found == IF sid = None THEN None ELSE FindScene(store, sid[1])
  IN IF ~IsStaff(u) THEN Rejected(Forbidden)
     ELSE IF disable
       THEN /\ scenes' = _save_scenes([store EXCEPT !.current = None])
            /\ PushRefresh
            /\ resp' = [status |-> 200, ok |-> TRUE, current |-> None]
            /\ UNCHANGED <<clock, threads>>
     ELSE IF sid = None THEN Rejected(Invalid)
     ELSE IF found = None THEN Rejected(NotFound)
     ELSE /\ scenes' = _save_scenes(
               [store EXCEPT !.current = Some(Descriptor(found[1]))])
          /\ PushRefresh
          /\ resp' = [status |-> 200, ok |-> TRUE,
                      current |-> Some(Descriptor(found[1]))]
          /\ UNCHANGED <<clock, threads>>

\* POST /api/scenes/clear
api_scenes_clear ==
  /\ scenes' = _save_scenes([_load_scenes EXCEPT !.current = None])
  /\ PushRefresh
  /\ resp' = Ok
  /\ UNCHANGED <<clock, threads>>

\* ------------------------------------------------------------------ resolve
\* The scene that the current pointer resolves to (scene_obj), if any.
SceneObj(store) ==
  IF store.current = None THEN None
  ELSE FindScene(store, store.current[1].id)

\* Mutant of SceneMerge: an allowed scene's list is added to the class list.
SceneMerge_merge(cls, focus, store) ==
  LET scene_obj == SceneObj(store)
      base == [focus_mode |-> focus,
               allowlist |-> cls.allowlist,
               teacher_blocks |-> cls.teacher_blocks]
  IN IF scene_obj = None THEN base
     ELSE IF scene_obj[1].type = "allowed"
       THEN [base EXCEPT !.allowlist = @ \o scene_obj[1].allow,
                         !.focus_mode = TRUE]
     ELSE IF scene_obj[1].type = "blocked"
       THEN [base EXCEPT !.teacher_blocks = @ \o scene_obj[1].block]
     ELSE base

\* Mutant of SceneMerge: a blocked scene's patterns replace the class's.
SceneMerge_replace(cls, focus, store) ==
  LET scene_obj == SceneObj(store)
      base == [focus_mode |-> focus,
               allowlist |-> cls.allowlist,
               teacher_blocks |-> cls.teacher_blocks]
  IN IF scene_obj = None THEN base
     ELSE IF scene_obj[1].type = "allowed"
       THEN [base EXCEPT !.allowlist = scene_obj[1].allow,
                         !.focus_mode = TRUE]
     ELSE IF scene_obj[1].type = "blocked"
       THEN [base EXCEPT !.teacher_blocks = scene_obj[1].block]
     ELSE base

\* The fields of the response that the scene merge decides.
SceneMerge(cls, focus, store) ==
  LET scene_obj == SceneObj(store)
      base == [focus_mode |-> focus,
               allowlist |-> cls.allowlist,
               teacher_blocks |-> cls.teacher_blocks]
  IN IF scene_obj = None THEN base
     ELSE IF scene_obj[1].type = "allowed"
       THEN [base EXCEPT !.allowlist = scene_obj[1].allow,
                         !.focus_mode = TRUE]
     ELSE IF scene_obj[1].type = "blocked"
       THEN [base EXCEPT !.teacher_blocks = @ \o scene_obj[1].block]
     ELSE base

\* Mutant of PolicyResponse: the student's overrides are not looked at.
PolicyResponse_class(doc, store, student) ==
  LET cls == doc.classes.period1
      pending == IF student # "" THEN PpsGet(doc, student) ELSE <<>>
      merged == SceneMerge(cls, cls.focus_mode, store)
  IN [ status |-> 200,
       blocked_redirect |-> Get(doc.settings.blocked_redirect,
                                "https://blocked.gdistrict.org/Gschool%20block"),
       categories |-> doc.categories,
       focus_mode |-> merged.focus_mode,
       paused |-> cls.paused,
       announcement |-> doc.announcements,
       class |-> [id |-> "period1", name |-> cls.name, active |-> cls.active],
       allowlist |-> merged.allowlist,
       teacher_blocks |-> merged.teacher_blocks,
       chat_enabled |-> doc.settings.chat_enabled,
       pending |-> pending,
       scenes |-> [current |-> store.current] ]

\* The response of api_policy for a stripped student id, from the document
\* as loaded and the scene store; ts, the clock's reading, is left out.
PolicyResponse(doc, store, student) ==
  LET cls == doc.classes.period1
      ov == IF student # "" THEN doc.student_overrides[student]
            ELSE EmptyOverride
      focus == Get(ov.focus_mode, cls.focus_mode)
      paused == Get(ov.paused, cls.paused)
      pending == IF student # "" THEN PpsGet(doc, student) ELSE <<>>
      merged == SceneMerge(cls, focus, store)
  IN [ status |-> 200,
       blocked_redirect |-> Get(doc.settings.blocked_redirect,
                                "https://blocked.gdistrict.org/Gschool%20block"),
       categories |-> doc.categories,
       focus_mode |-> merged.focus_mode,
       paused |-> paused,
       announcement |-> doc.announcements,
       class |-> [id |-> "period1", name |-> cls.name, active |-> cls.active],
       allowlist |-> merged.allowlist,
       teacher_blocks |-> merged.teacher_blocks,
       chat_enabled |-> doc.settings.chat_enabled,
       pending |-> pending,
       scenes |-> [current |-> store.current] ]

\* Mutant of api_policy: the pending list is returned and left in the store.
api_policy_keep(raw) ==
  /\ resp' = PolicyResponse(ensure_keys(load_data), _load_scenes, strip(raw))
  /\ UNCHANGED <<d, scenes, clock, nextId, threads>>

\* Mutant of api_policy: the merged teacher_blocks are saved as the class's.
api_policy_accumulate(raw) ==
  LET student == strip(raw)
      doc == ensure_keys(load_data)
      answer == PolicyResponse(doc, _load_scenes, student)
      popped == IF student # "" /\ student \in DOMAIN doc.pending_per_student
                  THEN PpsPop(doc, student) ELSE doc
  IN /\ d' = save_data([popped EXCEPT !.classes.period1.teacher_blocks =
                                        answer.teacher_blocks])
     /\ resp' = answer
     /\ UNCHANGED <<scenes, clock, nextId, threads>>

\* POST /api/policy
api_policy(raw) ==
  LET student == strip(raw)
      doc == ensure_keys(load_data)
  IN /\ d' = IF student # "" /\ student \in DOMAIN doc.pending_per_student
               THEN save_data(PpsPop(doc, student))
               ELSE d
     /\ resp' = PolicyResponse(doc, _load_scenes, student)
     /\ UNCHANGED <<scenes, clock, nextId, threads>>

\* ------------------------------------------------- requests, step by step
\* A handler reads data.json once (load_data), changes its copy and writes
\* the copy back (save_data); nothing orders the reads and writes of two
\* requests in flight. A thread holds its handler, its copy of the document
\* and what it will answer.
Idle == [at |-> "idle"]

\* api_policy up to and including load_data and the changes to the copy.
TPolicyLoad(w, raw) ==
  LET student == strip(raw)
      doc == ensure_keys(load_data)
      drain == student # "" /\ student \in DOMAIN doc.pending_per_student
  IN /\ threads[w] = Idle
     /\ threads' = [threads EXCEPT ![w] =
          [at |-> "save", op |-> "api_policy", student |-> student,
           write |-> drain,
           doc |-> IF drain THEN PpsPop(doc, student) ELSE doc,
           pending |-> PpsGet(doc, student)]]
     /\ UNCHANGED <<d, scenes, clock, nextId, req, resp>>

\* api_student_tabs_action up to and including load_data and the append.
TTabsActionLoad(w, u, raw, action) ==
  LET student == strip(raw)
  IN /\ threads[w] = Idle
     /\ IsStaff(u)
     /\ student # "" /\ action \in {"restore_tabs", "close_tabs"}
     /\ nextId < MaxCmds
     /\ threads' = [threads EXCEPT ![w] =
          [at |-> "save", op |-> "api_student_tabs_action",
           student |-> student, write |-> TRUE,
           doc |-> PpsAppend(ensure_keys(load_data), student, Cmd(action)),
           pending |-> <<>>]]
     /\ nextId' = nextId + 1
     /\ UNCHANGED <<d, scenes, clock, req, resp>>

\* save_data(d) of the handler; api_policy then reads the scene store and
\* answers, api_student_tabs_action goes on to log_action.
TSave(w) ==
  LET t == threads[w]
  IN /\ t.at = "save"
     /\ d' = IF t.write THEN save_data(t.doc) ELSE d
     /\ IF t.op = "api_policy"
          THEN /\ threads' = [threads EXCEPT ![w] = Idle]
               /\ req' = Req("api_policy", "POST", t.student)
               /\ resp' = [PolicyResponse(t.doc, _load_scenes, t.student)
                             EXCEPT !.pending = t.pending]
          ELSE /\ threads' = [threads EXCEPT ![w] = [t EXCEPT !.at = "log"]]
               /\ UNCHANGED <<req, resp>>
     /\ UNCHANGED <<scenes, clock, nextId>>

\* log_action: d = ensure_keys(load_data()); the audit entry is appended to
\* the copy (the audit list is not among the modelled keys).
TLogLoad(w) ==
  LET t == threads[w]
  IN /\ t.at = "log"
     /\ threads' = [threads EXCEPT ![w] =
          [t EXCEPT !.at = "logsave", !.doc = ensure_keys(load_data)]]
     /\ UNCHANGED <<d, scenes, clock, nextId, req, resp>>

\* log_action: save_data(d); then the handler answers.
TLogSave(w) ==
  LET t == threads[w]
  IN /\ t.at = "logsave"
     /\ d' = save_data(t.doc)
     /\ threads' = [threads EXCEPT ![w] = Idle]
     /\ req' = Other
     /\ resp' = Ok
     /\ UNCHANGED <<scenes, clock, nextId>>

\* ------------------------------------------------------------------ history
\* The history variables record what the requests did; no handler reads them.
IsPolicyOf(r, s) == r.op = "api_policy" /\ r.target = s
IsPollOf(r, s) == r.op = "api_commands" /\ r.method = "GET" /\ r.target = s

\* Everything a resolve response is computed from, pending queues apart.
PolicyState ==
  <<d.classes, d.student_overrides, d.settings, d.categories,
    d.announcements, scenes>>

NonPending(response) == [response EXCEPT !.pending = <<>>]

\* History of the command queues, r being the request handled. req keeps
\* the resolve and poll requests and forgets the others.
ObserveQueue(r) ==
  LET new == (nextId + 1)..nextId'
  IN /\ req' = IF r.op = "api_policy" \/ (r.op = "api_commands" /\ r.method = "GET")
                 THEN r ELSE Other
     /\ origin' = [i \in 1..nextId' |->
                     IF i <= nextId THEN origin[i] ELSE r]
     /\ sincePolicy' = [s \in Students |->
                          IF IsPolicyOf(r, s) THEN {}
                          ELSE sincePolicy[s] \cup new]
     /\ sincePoll' = [s \in Students |->
                        IF IsPollOf(r, s) THEN {}
                        ELSE sincePoll[s] \cup new]
     /\ delivered' = [i \in 1..nextId' |->
                        LET old == IF i <= nextId THEN delivered[i] ELSE 0
                        IN IF r.op = "api_policy"
                              /\ i \in Ids(resp'.pending) /\ old < 2
                             THEN old + 1 ELSE old]
     /\ UNCHANGED <<lastPolicy, prevCurrent, aiVars,
               memVars>>

\* History of the current scene, r being the request handled. req keeps the
\* resolve, apply, clear and delete requests and forgets the others.
ObserveScene(r) ==
  /\ req' = IF r.op \in {"api_policy", "api_scenes_apply", "api_scenes_clear",
                         "api_scenes_delete"}
              THEN r ELSE Other
  /\ prevCurrent' = scenes.current
  /\ UNCHANGED <<origin, sincePolicy, sincePoll, delivered, lastPolicy, aiVars,
               memVars>>

\* History of the resolve responses, r being the request handled: a
\* response is remembered until another request changes the stored policy.
ObservePolicy(r) ==
  /\ req' = IF r.op = "api_policy" THEN r ELSE Other
  /\ lastPolicy' = [s \in Students \cup {""} |->
                      IF IsPolicyOf(r, s)
                        THEN Some([answer |-> NonPending(resp'),
                                   calls |-> IF lastPolicy[s] = None THEN 1
                                             ELSE 2])
                      ELSE IF r.op # "api_policy" /\ PolicyState' # PolicyState
                        THEN None
                      ELSE lastPolicy[s]]
  /\ UNCHANGED <<origin, sincePolicy, sincePoll, delivered, prevCurrent, aiVars,
               memVars>>

\* ------------------------------------------------------------------- Init
EmptyStore == [allowed |-> <<>>, blocked |-> <<>>, current |-> None]

\* No schedule has been evaluated.
NoEval == [at |-> "none"]

\* classify has not been called.
NoCall == [at |-> "none"]

\* ai_classifier.CATEGORIES, in its order.
CATEGORIES ==
  << "Advertising", "AI Chatbots & Tools", "App Stores & System Updates",
     "Blogs", "Built-in Apps", "Collaboration", "Drugs & Alcohol",
     "Ecommerce", "Entertainment", "Gambling", "Games",
     "General / Education", "Health & Medicine",
     "Illegal, Malicious, or Hacking", "Religion", "Sexual Content",
     "Social Media", "Sports & Hobbies", "Streaming Services", "Weapons",
     "Uncategorized", "Allow only", "Global Block All" >>

CategoryNames == {CATEGORIES[i] : i \in DOMAIN CATEGORIES}

\* gschool.db after ensure_schema on a new file: every category unblocked
\* with no block_url, no schedule, no setting, no override.
SeededDb ==
  [categories |-> [c \in CategoryNames |->
                    [blocked |-> FALSE, block_url |-> None]],
   schedules |-> [c \in CategoryNames |-> None],
   blocked_redirect |-> None,
   allowlist |-> <<>>]

\* data.json and scenes.json do not exist yet: load_data creates the default
\* document, _load_scenes answers the empty store.
Boot ==
  /\ d = _safe_default_data
  /\ scenes = EmptyStore
  /\ clock = 0
  /\ nextId = 0
  /\ req = Other
  /\ resp = [status |-> 0]
  /\ threads = [w \in Workers |-> Idle]
  /\ origin = <<>>
  /\ sincePolicy = [s \in Students |-> {}]
  /\ sincePoll = [s \in Students |-> {}]
  /\ delivered = <<>>
  /\ lastPolicy = [s \in Students \cup {""} |-> None]
  /\ prevCurrent = None

\* PRESENT is a defaultdict: a room never used reads as a room whose
\* buckets are empty; cand_v and cand_t are defaultdict(list).
Rooms == {"r1", "r2"}
Clients == {"c1", "c2"}
EmptyRoom ==
  [cand_v |-> [c \in Clients |-> <<>>], cand_t |-> [c \in Clients |-> <<>>]]

\* The server's memory after start, and an empty audit list on file.
BootMem ==
  /\ PRESENT = [room \in Rooms |-> EmptyRoom]
  /\ cleared = {}
  /\ audit = <<>>

Init == Boot /\ BootMem /\ eval = NoEval /\ call = NoCall /\ db = SeededDb

\* --------------------------- per-student commands and resolve, one request
\* --------------------------- at a time
NextQueue ==
  \/ \E u \in StaffOrNot, student \in Students, cmd \in {None, Some("notify")} :
       /\ api_command(u, student, cmd)
       /\ ObserveQueue(Req("api_command", "POST", student))
  \/ \E student \in Students, u \in StaffOrNot, type \in {None, Some("notify")} :
       /\ api_commands("POST", student, u, type)
       /\ ObserveQueue(Req("api_commands", "POST", student))
  \/ \E urls \in UrlLists, raw \in RawStudents \ {""} :
       /\ api_open_tabs_alias(urls, raw)
       /\ ObserveQueue(Req("api_open_tabs_alias", "POST", strip(raw)))
  \/ \E u \in StaffOrNot, raw \in RawStudents, action \in TabActions :
       /\ api_student_tabs_action(u, raw, action)
       /\ ObserveQueue(Req("api_student_tabs_action", "POST", strip(raw)))
  \/ \E u \in StaffOrNot, raw \in RawStudents, urls \in UrlLists :
       /\ api_student_open_tabs(u, raw, urls)
       /\ ObserveQueue(Req("api_student_open_tabs", "POST", strip(raw)))
  \/ \E raw \in RawStudents :
       api_policy(raw) /\ ObserveQueue(Req("api_policy", "POST", strip(raw)))

SpecQueue == Init /\ [][NextQueue]_vars

\* ------------------------ pending_commands and the poll, one request at a
\* ------------------------ time
NextPoll ==
  \/ \E u \in StaffOrNot, msg \in {""} :
       api_announce(u, msg) /\ ObserveQueue(Req("api_announce", "POST", "*"))
  \/ \E u \in StaffOrNot, student \in Students \cup {""},
        cmd \in {None, Some("notify")} :
       /\ api_command(u, student, cmd)
       /\ ObserveQueue(Req("api_command", "POST",
                           IF student = "" THEN "*" ELSE student))
  \/ \E method \in {"GET", "POST"}, student \in Students, u \in StaffOrNot,
        type \in {None, Some("notify")} :
       /\ api_commands(method, student, u, type)
       /\ ObserveQueue(Req("api_commands", method, student))
  \/ \E urls \in UrlLists :
       /\ api_open_tabs_alias(urls, "")
       /\ ObserveQueue(Req("api_open_tabs_alias", "POST", "*"))

SpecPoll == Init /\ [][NextPoll]_vars

\* ----------------------------------------------------- claims on the queues
\* The handlers that append to pending_per_student.
PerStudentOps ==
  {"api_student_tabs_action", "api_student_open_tabs", "api_open_tabs_alias"}

\* Ids queued for student s, by whatever handler, since its last resolve.
QueuedForSince(s) == {i \in sincePolicy[s] : origin[i].target = s}

\* Those of them that went to the per-student queue.
PerStudentSince(s) == {i \in QueuedForSince(s) : origin[i].op \in PerStudentOps}

\* The n most recently queued ids of S.
MostRecent(S, n) == {i \in S : Cardinality({j \in S : j > i}) < n}

\* C1: a resolve for a student returns exactly the commands stored in that
\* student's per-student queue, and a resolve that follows an earlier resolve
\* of the same student with no enqueue into that queue in between returns an
\* empty pending list.
C1_SequentialDrain ==
  [][\A s \in Students :
       IsPolicyOf(req', s) =>
         /\ resp'.pending = PpsGet(d, s)
         /\ (PerStudentSince(s) = {} => resp'.pending = <<>>)]_vars

\* C1 witness: one command was ever queued, a resolve of its student returned
\* it, and the resolve just answered for that student came back empty.
C1_Witness ==
  /\ nextId = 1
  /\ delivered[1] = 1
  /\ origin[1].op = "api_student_tabs_action"
  /\ IsPolicyOf(req, origin[1].target)
  /\ resp.pending = <<>>

\* C3 as claimed: a poll by a student returns every broadcast command queued
\* since that student's previous poll.
C3_BroadcastReachesAll ==
  [][\A s \in Students :
       IsPollOf(req', s) =>
         {i \in sincePoll[s] : origin[i].target = "*"}
           \subseteq Ids(resp'.commands)]_vars

\* C4 as claimed: a resolve for a student returns every command queued for
\* that student since its last resolve, whichever handler queued it.
C4_EveryStudentCommandDelivered ==
  [][\A s \in Students :
       IsPolicyOf(req', s) => QueuedForSince(s) \subseteq Ids(resp'.pending)]_vars

\* C4 amended: a resolve for a student returns every command that
\* api_student_tabs_action, api_student_open_tabs or api_open_tabs queued for
\* it since its last resolve (the PendingCap most recent of them) and leaves
\* the student without a per-student queue; the commands api_command and POST
\* api_commands queued for it are not returned and stay in pending_commands.
C4_PerStudentQueueDelivered ==
  [][\A s \in Students :
       IsPolicyOf(req', s) =>
         /\ MostRecent(PerStudentSince(s), PendingCap) \subseteq Ids(resp'.pending)
         /\ s \notin DOMAIN d'.pending_per_student
         /\ (QueuedForSince(s) \ PerStudentSince(s)) \cap Ids(resp'.pending) = {}
         /\ d'.pending_commands = d.pending_commands]_vars

\* C4 witness: a resolve returned two per-student commands.
C4_Witness ==
  /\ req.op = "api_policy"
  /\ Len(resp.pending) = 2
  /\ origin[resp.pending[1].id].op = "api_student_tabs_action"
  /\ origin[resp.pending[2].id].op = "api_student_open_tabs"

\* ------------------------------------- a per-student queue at its capacity
\* The queue of a student after n per-student commands were queued for it
\* and none resolved: they carry the ids 1 - n .. 0, in the order queued.
Backlog(n) == [i \in 1..n |-> [type |-> "open_tabs", id |-> i - n]]

\* The server with s1's queue absent, one short of its capacity or full.
InitFifo ==
  \E n \in {0, PendingCap - 1, PendingCap} :
    /\ d = [_safe_default_data EXCEPT !.pending_per_student =
              [s \in (IF n = 0 THEN {} ELSE {"s1"}) |-> Backlog(n)]]
    /\ scenes = EmptyStore
    /\ clock = 0
    /\ nextId = 0
    /\ req = Other
    /\ resp = [status |-> 0]
    /\ threads = [w \in Workers |-> Idle]
    /\ origin = <<>>
    /\ sincePolicy = [s \in Students |->
                        IF s = "s1" THEN (1 - n)..0 ELSE {}]
    /\ sincePoll = [s \in Students |-> {}]
    /\ delivered = <<>>
    /\ lastPolicy = [s \in Students \cup {""} |-> None]
    /\ prevCurrent = None
    /\ BootMem
    /\ eval = NoEval /\ call = NoCall /\ db = SeededDb

NextFifo ==
  \/ \E urls \in UrlLists, raw \in RawStudents \ {""} :
       /\ api_open_tabs_alias(urls, raw)
       /\ ObserveQueue(Req("api_open_tabs_alias", "POST", strip(raw)))
  \/ \E u \in StaffOrNot, raw \in RawStudents, action \in TabActions :
       /\ api_student_tabs_action(u, raw, action)
       /\ ObserveQueue(Req("api_student_tabs_action", "POST", strip(raw)))
  \/ \E u \in StaffOrNot, raw \in RawStudents, urls \in UrlLists :
       /\ api_student_open_tabs(u, raw, urls)
       /\ ObserveQueue(Req("api_student_open_tabs", "POST", strip(raw)))
  \/ \E raw \in RawStudents :
       api_policy(raw) /\ ObserveQueue(Req("api_policy", "POST", strip(raw)))

SpecFifo == InitFifo /\ [][NextFifo]_vars

\* Ids queued into the per-student queue of s since its last resolve: those
\* of the backlog and those the three handlers queued.
InQueueSince(s) ==
  {i \in sincePolicy[s] :
     i <= 0 \/ (origin[i].target = s /\ origin[i].op \in PerStudentOps)}

\* cmds holds the PendingCap most recently queued ids of S (all of S when it
\* has no more), oldest first.
HoldsMostRecent(cmds, S) ==
  LET ids == Ids(cmds)
      n == Cardinality(S)
  IN /\ Len(cmds) = (IF n <= PendingCap THEN n ELSE PendingCap)
     /\ ids \subseteq S
     /\ \A i \in S \ ids : \A j \in ids : i < j
     /\ \A k \in 1..(Len(cmds) - 1) : cmds[k].id < cmds[k + 1].id

\* C30: after any sequence of api_student_tabs_action, api_student_open_tabs
\* and api_open_tabs calls (and resolves) the per-student queue of a student
\* holds at most PendingCap commands, namely the most recently queued ones
\* since its last resolve in the order queued, and the next resolve of the
\* student returns exactly them in that order.
C30_BoundedFifo ==
  [][\A s \in Students :
       /\ HoldsMostRecent(PpsGet(d', s), InQueueSince(s)')
       /\ IsPolicyOf(req', s) =>
            /\ HoldsMostRecent(resp'.pending, InQueueSince(s))
            /\ resp'.pending = PpsGet(d, s)]_vars

\* C30 witness: PendingCap + 2 commands were queued for s1, the last two by
\* two of the handlers, and a resolve of s1 returned PendingCap commands, the
\* two oldest dropped and the newest last.
C30_Witness ==
  /\ IsPolicyOf(req, "s1")
  /\ nextId = 2
  /\ origin[1].op # origin[2].op
  /\ Len(resp.pending) = PendingCap
  /\ resp.pending[1].id = 3 - PendingCap
  /\ resp.pending[PendingCap].id = 2

\* ------------------------------------- presence history at its capacity
\* Sampled heartbeat bodies: one screenshot logged; more than ShotLogTake of
\* them and a tab without id; a shot_log whose second entry is no object;
\* and an empty body.
HeartbeatBodies ==
  { HeartbeatBody("u1", <<Some("1")>>, {"1", "2"}, <<TRUE>>),
    HeartbeatBody("u1", <<None>>, {"1"}, [k \in 1..(ShotLogTake + 1) |-> TRUE]),
    HeartbeatBody("u2", <<Some("1"), Some("2")>>, {"2"}, <<TRUE, FALSE>>),
    HeartbeatBody("", <<>>, {}, <<>>) }

\* The server after earlier heartbeats of s1, of ordinals 1 - n .. 0: its
\* timeline and its screenshot history are absent, one short of their
\* capacity, or full.
InitHeartbeat ==
  /\ \E full \in {"absent", "short", "full"} :
       LET n == IF full = "short" THEN HistoryCap - 1 ELSE HistoryCap
           m == IF full = "short" THEN ShotCap - 1 ELSE ShotCap
           on == IF full = "absent" THEN {} ELSE {"s1"}
       IN d = [_safe_default_data EXCEPT
                 !.presence = [s \in on |->
                                 [tabs |-> <<Some("1")>>, tabshots |-> {"1"}]],
                 !.history = [s \in on |->
                                [k \in 1..n |-> [ts |-> k - n, url |-> "u1"]]],
                 !.screenshots = [s \in on |->
                                    [k \in 1..m |-> [ts |-> k - m, tabId |-> 1]]]]
  /\ scenes = EmptyStore
  /\ clock = 0
  /\ nextId = 0
  /\ req = Other
  /\ resp = [status |-> 0]
  /\ threads = [w \in Workers |-> Idle]
  /\ origin = <<>>
  /\ sincePolicy = [s \in Students |-> {}]
  /\ sincePoll = [s \in Students |-> {}]
  /\ delivered = <<>>
  /\ lastPolicy = [s \in Students \cup {""} |-> None]
  /\ prevCurrent = None
  /\ BootMem
  /\ eval = NoEval /\ call = NoCall /\ db = SeededDb

NextHeartbeat ==
  \E raw \in RawStudents, guest \in BOOLEAN, body \in HeartbeatBodies,
     late \in BOOLEAN :
    /\ api_heartbeat(raw, guest, body, late)
    /\ ObserveQueue(Req("api_heartbeat", "POST", strip(raw)))

SpecHeartbeat == InitHeartbeat /\ [][NextHeartbeat]_vars

\* after is before with its oldest entries dropped, followed by at most
\* take entries of the heartbeat now; entries are dropped only to keep cap.
GrownTo(before, after, now, cap, take) ==
  LET new == {k \in 1..Len(after) : after[k].ts = now}
      kept == Len(after) - Cardinality(new)
  IN /\ Len(after) <= cap
     /\ Cardinality(new) <= take
     /\ kept <= Len(before)
     /\ SubSeq(after, 1, kept) = SubSeq(before, Len(before) - kept + 1, Len(before))
     /\ kept < Len(before) => Len(after) = cap

\* C33 as claimed: after every heartbeat each student's timeline holds at
\* most HistoryCap entries and its screenshot history at most ShotCap, the
\* oldest dropped first; at most one timeline entry and at most ShotLogTake
\* screenshot entries come from one heartbeat; and the stored tabshots keys
\* are ids of tabs the student's latest heartbeat reported open.
C33_PresenceCapped ==
  [][\A s \in Students :
       /\ GrownTo(KeyGet(d, "history", s, <<>>), KeyGet(d', "history", s, <<>>),
                  nextId + 1, HistoryCap, 1)
       /\ GrownTo(KeyGet(d, "screenshots", s, <<>>),
                  KeyGet(d', "screenshots", s, <<>>), nextId + 1, ShotCap,
                  ShotLogTake)
       /\ s \in DOMAIN d'.presence =>
            d'.presence[s].tabshots \subseteq
              {t[1] : t \in Range(d'.presence[s].tabs) \ {None}}]_vars

\* ---------------------------------------------- requests handled in parallel
\* History of the deliveries: every command a resolve answers is counted.
ObserveDelivery(isResolve) ==
  /\ delivered' = [i \in 1..nextId' |->
                     LET old == IF i <= nextId THEN delivered[i] ELSE 0
                     IN IF isResolve /\ i \in Ids(resp'.pending) /\ old < 2
                          THEN old + 1 ELSE old]
  /\ UNCHANGED <<origin, sincePolicy, sincePoll, lastPolicy, prevCurrent, aiVars,
               memVars>>

NextConc ==
  \/ \E w \in Workers, raw \in RawStudents \ {""} :
       TPolicyLoad(w, raw) /\ ObserveDelivery(FALSE)
  \/ \E w \in Workers, raw \in RawStudents \ {""} :
       TTabsActionLoad(w, "teacher", raw, "restore_tabs") /\ ObserveDelivery(FALSE)
  \/ \E w \in Workers :
       TSave(w) /\ ObserveDelivery(threads[w].op = "api_policy")
  \/ \E w \in Workers : TLogLoad(w) /\ ObserveDelivery(FALSE)
  \/ \E w \in Workers : TLogSave(w) /\ ObserveDelivery(FALSE)

SpecConc == Init /\ [][NextConc]_vars

\* C2 as claimed: whatever the interleaving of the requests, no queued
\* command is returned by more than one resolve.
C2_AtMostOnce == \A i \in 1..nextId : delivered[i] <= 1

\* The same requests under fair scheduling: a request that has started runs
\* to its end (Flask gives each its thread), and each student keeps calling
\* resolve.
FairConc ==
  /\ \A w \in Workers :
       /\ WF_vars(TSave(w) /\ ObserveDelivery(threads[w].op = "api_policy"))
       /\ WF_vars(TLogLoad(w) /\ ObserveDelivery(FALSE))
       /\ WF_vars(TLogSave(w) /\ ObserveDelivery(FALSE))
  /\ \A s \in Students :
       SF_vars(\E w \in Workers : TPolicyLoad(w, s) /\ ObserveDelivery(FALSE))

SpecLive == SpecConc /\ FairConc

\* C34 as claimed: whatever the interleaving, a command that an enqueue
\* saved into a student's per-student queue is eventually returned by a
\* resolve, the student calling resolve again and again (MaxCmds commands
\* never reach the queue's capacity).
C34_EventuallyDelivered ==
  \A i \in 1..MaxCmds :
    (\E s \in Students : i \in Ids(PpsGet(d, s)))
      ~> (i <= nextId /\ delivered[i] >= 1)

\* ------------------------------------------- the scene store and its pointer
\* A scene request: the scene id it names, if any, and its disable flag.
SceneReq(op, sid, disable) ==
  [op |-> op, method |-> "POST", target |-> "", sid |-> sid,
   disable |-> disable]

SceneIds == 0..MaxClock

\* Bodies of POST /api/scenes: a scene of either type, or no name.
CreateBodies ==
  {SceneBody(Some("A"), Some(t), Some(<<"sa">>), Some(<<"sb">>)) :
     t \in {"allowed", "blocked"}}
  \cup {SceneBody(None, Some("allowed"), None, None)}

\* Bodies of PUT /api/scenes/<sid>: the scene becomes of the given type.
RetypeBodies ==
  {SceneBody(None, Some(t), None, None) : t \in {"allowed", "blocked"}}

NextScene ==
  \/ \E body \in CreateBodies :
       /\ api_scenes_create(body, MaxScenes)
       /\ ObserveScene(SceneReq("api_scenes_create", None, FALSE))
  \/ \E sid \in SceneIds :
       /\ api_scenes_update(sid, SceneBody(None, Some("blocked"), None, None))
       /\ ObserveScene(SceneReq("api_scenes_update", Some(sid), FALSE))
  \/ \E sid \in SceneIds :
       /\ api_scenes_delete(sid)
       /\ ObserveScene(SceneReq("api_scenes_delete", Some(sid), FALSE))
  \/ \E u \in StaffOrNot, sid \in {None} \cup {Some(i) : i \in SceneIds},
        disable \in BOOLEAN :
       /\ api_scenes_apply(u, sid, disable)
       /\ ObserveScene(SceneReq("api_scenes_apply", sid, disable))
  \/ /\ api_scenes_clear
     /\ ObserveScene(SceneReq("api_scenes_clear", None, FALSE))
  \/ \E raw \in Students :
       /\ api_policy(raw)
       /\ ObserveScene(Req("api_policy", "POST", strip(raw)))

SpecScene == Init /\ [][NextScene]_vars

IsApplyOk(r, answer) ==
  r.op = "api_scenes_apply" /\ answer.status = 200 /\ ~r.disable

IsClearOk(r, answer) ==
  \/ r.op = "api_scenes_clear"
  \/ r.op = "api_scenes_apply" /\ answer.status = 200 /\ r.disable

\* C9: the current pointer is always none or one scene descriptor; a
\* successful apply makes the scene it names current whatever was current
\* before; clear and apply with disable leave none current; and a resolve
\* reports the stored pointer, the same whichever the student, without
\* changing it.
C9_OneGlobalCurrent ==
  [][/\ Len(scenes'.current) <= 1
     /\ IsApplyOk(req', resp') =>
          /\ FindScene(scenes, req'.sid[1]) # None
          /\ scenes'.current =
               Some(Descriptor(FindScene(scenes, req'.sid[1])[1]))
     /\ IsClearOk(req', resp') => scenes'.current = None
     /\ req'.op = "api_policy" =>
          /\ resp'.scenes.current = scenes.current
          /\ scenes' = scenes
          /\ \A s \in Students :
               PolicyResponse(d, scenes, s).scenes = resp'.scenes]_vars

\* C31: an apply without disable whose id matches no stored scene, or that
\* carries no id, is answered with an error, leaves the scene store with its
\* current pointer and the policy document unchanged, and queues no
\* policy_refresh command.
C31_UnknownApply ==
  [][(/\ req'.op = "api_scenes_apply"
      /\ ~req'.disable
      /\ (req'.sid = None \/ FindScene(scenes, req'.sid[1]) = None)) =>
       /\ resp'.status \in {400, 403, 404}
       /\ ~resp'.ok
       /\ scenes' = scenes
       /\ d'.pending_commands = d.pending_commands
       /\ nextId' = nextId]_vars

\* C31 witness: while a scene is current, an apply of an id that no stored
\* scene carries was answered 404.
C31_Witness ==
  /\ req.op = "api_scenes_apply"
  /\ ~req.disable
  /\ req.sid # None
  /\ FindScene(scenes, req.sid[1]) = None
  /\ resp.status = 404
  /\ scenes.current # None

\* C35 as claimed: the current pointer is none, or it carries the id of a
\* scene stored in one of the buckets and the type of that scene.
C35_PointerNeverDangles ==
  scenes.current # None =>
    /\ FindScene(scenes, scenes.current[1].id) # None
    /\ FindScene(scenes, scenes.current[1].id)[1].type = scenes.current[1].type

\* C36 as claimed: every scene of the allowed bucket has type "allowed" and
\* every scene of the blocked bucket has type "blocked".
C36_BucketAndTypeAgree ==
  /\ \A i \in 1..Len(scenes.allowed) : scenes.allowed[i].type = "allowed"
  /\ \A i \in 1..Len(scenes.blocked) : scenes.blocked[i].type = "blocked"

\* C29 as stated: in every state of the scene store, also with no scene
\* current, a delete of sid is answered ok, leaves no scene of id sid in
\* either bucket and every other scene in place, and leaves the pointer
\* as it was unless it named sid, in which case none is current.
C29_DeleteSucceeds ==
  [][req'.op = "api_scenes_delete" =>
       LET sid == req'.sid[1]
       IN /\ resp'.status = 200
          /\ scenes'.allowed = Without(scenes.allowed, sid)
          /\ scenes'.blocked = Without(scenes.blocked, sid)
          /\ scenes'.current =
               IF scenes.current # None /\ scenes.current[1].id = sid
                 THEN None ELSE scenes.current]_vars

\* Scene B is applied while scene A is current.
C9_Witness ==
  /\ IsApplyOk(req, resp)
  /\ prevCurrent # None
  /\ scenes.current # None
  /\ prevCurrent[1].id # scenes.current[1].id

\* ------------------------------------- resolve: class, overrides and scene
\* r being the request handled, req keeps the resolve requests only.
ObserveResolve(r) ==
  /\ req' = IF r.op = "api_policy" THEN r ELSE Other
  /\ UNCHANGED <<histVars, aiVars,
               memVars>>

AllowedBody == SceneBody(Some("A"), Some("allowed"), Some(<<"sa">>), Some(<<"sb">>))

StudentSetBodies ==
  {Flags(Some(FALSE), None), Flags(None, Some(TRUE))}

NextOverride ==
  \/ \E u \in StaffOrNot, key \in {"focus_mode", "paused", "bogus"},
        val \in BOOLEAN :
       /\ api_class_toggle(u, "period1", key, val)
       /\ ObserveResolve(Req("api_class_toggle", "POST", ""))
  \/ \E u \in StaffOrNot, raw \in {"s1", ""}, b \in StudentSetBodies :
       /\ api_student_set(u, raw, b)
       /\ ObserveResolve(Req("api_student_set", "POST", strip(raw)))
  \/ /\ api_scenes_create(AllowedBody, MergeScenes)
     /\ ObserveResolve(SceneReq("api_scenes_create", None, FALSE))
  \/ \E sid \in SceneIds :
       /\ api_scenes_apply("teacher", Some(sid), FALSE)
       /\ ObserveResolve(SceneReq("api_scenes_apply", Some(sid), FALSE))
  \/ /\ api_scenes_clear
     /\ ObserveResolve(SceneReq("api_scenes_clear", None, FALSE))
  \/ \E raw \in {"s1", "s2", ""} :
       /\ api_policy(raw)
       /\ ObserveResolve(Req("api_policy", "POST", strip(raw)))

SpecOverride == Init /\ [][NextOverride]_vars

\* The value resolve gives a flag when no scene is active: the override's if
\* the override sets the key, the class's otherwise.
Shadowed(s, key) ==
  LET ov == d.student_overrides[s]
  IN IF ov[key] # None THEN ov[key][1] ELSE d.classes.period1[key]

\* C5: when no scene is current, a resolve for a student returns, for each
\* of focus_mode and paused, the value of the student's override if the
\* override sets that key and the class's value otherwise.
C5_OverrideShadowing ==
  [][\A s \in Students :
       (IsPolicyOf(req', s) /\ scenes.current = None) =>
         /\ resp'.focus_mode = Shadowed(s, "focus_mode")
         /\ resp'.paused = Shadowed(s, "paused")]_vars

\* The override {paused: true} over a class with paused=false and
\* focus_mode=true resolves to paused=true, focus_mode=true.
C5_Witness ==
  /\ IsPolicyOf(req, "s1")
  /\ scenes.current = None
  /\ d.student_overrides["s1"] = Flags(None, Some(TRUE))
  /\ ~d.classes.period1.paused
  /\ d.classes.period1.focus_mode
  /\ resp.paused
  /\ resp.focus_mode

\* ------------------------------------------------ one student and another
\* History of the commands, r being the request handled; req keeps every
\* request.
ObserveStudent(r) ==
  /\ req' = r
  /\ origin' = [i \in 1..nextId' |-> IF i <= nextId THEN origin[i] ELSE r]
  /\ UNCHANGED <<sincePolicy, sincePoll, delivered, lastPolicy, prevCurrent,
                 aiVars, memVars>>

NextIsolation ==
  \/ \E raw \in RawStudents \ {""} :
       /\ api_student_tabs_action("teacher", raw, "restore_tabs")
       /\ ObserveStudent(Req("api_student_tabs_action", "POST", strip(raw)))
  \/ \E u \in StaffOrNot, raw \in RawStudents, b \in StudentSetBodies :
       /\ api_student_set(u, raw, b)
       /\ ObserveStudent(Req("api_student_set", "POST", strip(raw)))
  \/ \E val \in BOOLEAN :
       /\ api_class_toggle("teacher", "period1", "focus_mode", val)
       /\ ObserveStudent(Req("api_class_toggle", "POST", ""))
  \/ \E raw \in RawStudents :
       /\ api_policy(raw)
       /\ ObserveStudent(Req("api_policy", "POST", strip(raw)))

SpecIsolation == Init /\ [][NextIsolation]_vars

\* The per-student queue and the override of student s in document doc.
OwnState(doc, s) ==
  <<s \in DOMAIN doc.pending_per_student, PpsGet(doc, s),
    doc.student_overrides[s]>>

\* C38: a resolve for student A leaves every other student's per-student
\* queue and override as they were and returns only commands queued for A;
\* a successful api_student_set for A changes nothing of what resolve
\* answers another student; and a resolve with an empty student id returns
\* an empty pending list and leaves the document and the scene store as
\* they were.
C38_StudentsIsolated ==
  [][\A B \in Students :
       /\ (req'.op = "api_policy" /\ req'.target # B) =>
            /\ OwnState(d', B) = OwnState(d, B)
            /\ \A i \in Ids(resp'.pending) : origin[i].target = req'.target
       /\ (req'.op = "api_student_set" /\ req'.target # B) =>
            PolicyResponse(d', scenes', B) = PolicyResponse(d, scenes, B)
       /\ (req'.op = "api_policy" /\ req'.target = "") =>
            /\ resp'.pending = <<>>
            /\ d' = d /\ scenes' = scenes]_vars

\* C38 witness: with a command queued for s2 and an override set for s2, a
\* resolve of s1 returned the command queued for s1.
C38_Witness ==
  /\ req.op = "api_policy" /\ req.target = "s1"
  /\ Len(resp.pending) = 1
  /\ origin[resp.pending[1].id].target = "s1"
  /\ Len(PpsGet(d, "s2")) = 1
  /\ d.student_overrides["s2"].paused = Some(TRUE)

\* ------------------------------------------------------- the audit list
\* The audit list log_action writes, log being the list on file: the entry
\* is appended to a fresh copy of the document and the copy is saved.
log_action(log, entry) == LastN(Append(log, entry), AuditCap)

\* The audit list on file after api_open_tabs: the handler loads the
\* document, log_action loads it again and saves it with the entry, and the
\* handler's save_data(d) then writes its own copy, loaded before.
open_tabs_audit(entry) ==
  LET loaded == audit
      logged == log_action(audit, entry)
  IN loaded

\* History of the requests that log, r being the request handled and log
\* the audit list it leaves on file.
ObserveAudit(r, log) ==
  /\ req' = r
  /\ origin' = [i \in 1..nextId' |-> IF i <= nextId THEN origin[i] ELSE r]
  /\ audit' = IF resp'.status = 200 THEN log ELSE audit
  /\ UNCHANGED <<sincePolicy, sincePoll, delivered, lastPolicy, prevCurrent,
                 aiVars, PRESENT, cleared>>

\* The server with an audit list that is empty, one short of its capacity
\* or full.
InitAudit ==
  /\ Boot
  /\ PRESENT = [room \in Rooms |-> EmptyRoom]
  /\ cleared = {}
  /\ \E n \in {0, AuditCap - 1, AuditCap} :
       audit = [k \in 1..n |-> [event |-> "student_tabs", id |-> k - n]]
  /\ eval = NoEval /\ call = NoCall /\ db = SeededDb

NextAudit ==
  \/ \E urls \in UrlLists, raw \in RawStudents :
       /\ api_open_tabs_alias(urls, raw)
       /\ ObserveAudit(Req("api_open_tabs_alias", "POST", strip(raw)),
                       open_tabs_audit(
                         [event |-> IF strip(raw) # "" THEN "student_tabs"
                                    ELSE "class_tabs",
                          id |-> nextId + 1]))
  \/ \E u \in StaffOrNot, raw \in RawStudents, action \in TabActions :
       /\ api_student_tabs_action(u, raw, action)
       /\ ObserveAudit(Req("api_student_tabs_action", "POST", strip(raw)),
                       log_action(audit, [event |-> "student_tabs",
                                          id |-> nextId + 1]))

SpecAudit == InitAudit /\ [][NextAudit]_vars

\* C40 as claimed: after a successful api_open_tabs the audit list on file
\* holds the student_tabs or class_tabs entry the call logged, and the list
\* never holds more than AuditCap entries.
C40_AuditEntryKept ==
  [][/\ Len(audit') <= AuditCap
     /\ (req'.op = "api_open_tabs_alias" /\ resp'.status = 200) =>
          \E k \in 1..Len(audit') :
            /\ audit'[k].id = nextId'
            /\ audit'[k].event \in {"student_tabs", "class_tabs"}]_vars

\* ------------------------------------------------ resolve: the scene merge
BothLists == ClassSetBody(Some(<<"cb">>), Some(<<"ca">>), None, None)

NextMerge ==
  \/ \E val \in BOOLEAN :
       /\ api_class_toggle("teacher", "period1", "focus_mode", val)
       /\ ObserveResolve(Req("api_class_toggle", "POST", ""))
  \/ /\ api_class_set(BothLists)
     /\ ObserveResolve(Req("api_class_set", "POST", ""))
  \/ /\ api_student_set("teacher", "s1", Flags(Some(FALSE), None))
     /\ ObserveResolve(Req("api_student_set", "POST", "s1"))
  \/ \E body \in CreateBodies :
       /\ api_scenes_create(body, MergeScenes)
       /\ ObserveResolve(SceneReq("api_scenes_create", None, FALSE))
  \/ \E sid \in SceneIds, body \in RetypeBodies :
       /\ api_scenes_update(sid, body)
       /\ ObserveResolve(SceneReq("api_scenes_update", Some(sid), FALSE))
  \/ \E sid \in SceneIds :
       /\ api_scenes_apply("teacher", Some(sid), FALSE)
       /\ ObserveResolve(SceneReq("api_scenes_apply", Some(sid), FALSE))
  \/ /\ api_scenes_clear
     /\ ObserveResolve(SceneReq("api_scenes_clear", None, FALSE))
  \/ \E raw \in Students :
       /\ api_policy(raw)
       /\ ObserveResolve(Req("api_policy", "POST", strip(raw)))

SpecMerge == Init /\ [][NextMerge]_vars

\* The stored scenes in the order resolve searches them.
Stored == scenes.allowed \o scenes.blocked

\* The current scene: the first stored scene the current pointer names.
HasCurrentScene ==
  /\ scenes.current # None
  /\ \E i \in 1..Len(Stored) : Stored[i].id = scenes.current[1].id

CurrentScene ==
  Stored[Min({i \in 1..Len(Stored) : Stored[i].id = scenes.current[1].id})]

\* C6: while the current scene is of type allowed, a resolve returns
\* focus_mode=true and the scene's allow list as allowlist, whatever the
\* class's focus_mode, the class's allowlist and the student's override, and
\* returns the class's teacher_blocks.
C6_AllowedSceneForcesFocus ==
  [][\A s \in Students :
       (IsPolicyOf(req', s) /\ HasCurrentScene
          /\ CurrentScene.type = "allowed") =>
         /\ resp'.focus_mode = TRUE
         /\ resp'.allowlist = CurrentScene.allow
         /\ resp'.teacher_blocks = d.classes.period1.teacher_blocks]_vars

\* An allowed scene over a class with focus_mode=false, its own allowlist
\* and a student override focus_mode=false.
C6_Witness ==
  /\ IsPolicyOf(req, "s1")
  /\ HasCurrentScene
  /\ CurrentScene.type = "allowed"
  /\ ~d.classes.period1.focus_mode
  /\ d.student_overrides["s1"].focus_mode = Some(FALSE)
  /\ d.classes.period1.allowlist = <<"ca">>
  /\ resp.focus_mode
  /\ resp.allowlist = <<"sa">>
  /\ resp.teacher_blocks = <<"cb">>

\* C7: while the current scene is of type blocked, a resolve returns the
\* class's teacher_blocks followed by the scene's block patterns, the
\* class's allowlist, and the focus_mode it returns when no scene is active.
C7_BlockedSceneAppends ==
  [][\A s \in Students :
       (IsPolicyOf(req', s) /\ HasCurrentScene
          /\ CurrentScene.type = "blocked") =>
         /\ resp'.teacher_blocks =
              d.classes.period1.teacher_blocks \o CurrentScene.block
         /\ resp'.allowlist = d.classes.period1.allowlist
         /\ resp'.focus_mode = Shadowed(s, "focus_mode")]_vars

\* A blocked scene over a class that has a teacher block and an allowlist.
C7_Witness ==
  /\ IsPolicyOf(req, "s2")
  /\ HasCurrentScene
  /\ CurrentScene.type = "blocked"
  /\ d.classes.period1.focus_mode
  /\ resp.teacher_blocks = <<"cb", "sb">>
  /\ resp.allowlist = <<"ca">>
  /\ resp.focus_mode

\* C37 as claimed: a request that changes what resolve answers some student
\* (its pending list apart) appends a policy_refresh command to the
\* broadcast queue.
C37_ChangeForcesRefresh ==
  [][(\E s \in Students :
        NonPending(PolicyResponse(d', scenes', s))
          # NonPending(PolicyResponse(d, scenes, s))) =>
       LET before == d.pending_commands["*"]
           after == d'.pending_commands["*"]
       IN /\ Len(after) = Len(before) + 1
          /\ SubSeq(after, 1, Len(before)) = before
          /\ after[Len(after)].type = "policy_refresh"]_vars

\* ------------------------------------------------- resolve, call after call
BlockedBody == SceneBody(Some("B"), Some("blocked"), Some(<<"sa">>), Some(<<"sb">>))

NextIdem ==
  \/ \E val \in BOOLEAN :
       /\ api_class_toggle("teacher", "period1", "paused", val)
       /\ ObservePolicy(Req("api_class_toggle", "POST", ""))
  \/ /\ api_class_set(BothLists)
     /\ ObservePolicy(Req("api_class_set", "POST", ""))
  \/ /\ api_student_set("teacher", "s1", Flags(None, Some(TRUE)))
     /\ ObservePolicy(Req("api_student_set", "POST", "s1"))
  \/ /\ api_student_tabs_action("teacher", "s1", "restore_tabs")
     /\ ObservePolicy(Req("api_student_tabs_action", "POST", "s1"))
  \/ /\ api_scenes_create(BlockedBody, MergeScenes)
     /\ ObservePolicy(SceneReq("api_scenes_create", None, FALSE))
  \/ \E sid \in SceneIds, disable \in BOOLEAN :
       /\ api_scenes_apply("teacher", Some(sid), disable)
       /\ ObservePolicy(SceneReq("api_scenes_apply", Some(sid), disable))
  \/ \E raw \in Students :
       /\ api_policy(raw)
       /\ ObservePolicy(Req("api_policy", "POST", strip(raw)))

SpecIdem == Init /\ [][NextIdem]_vars

\* C8: a resolve returns, pending apart, what the previous resolve for the
\* same student returned if no request in between changed the stored
\* policy; and a resolve leaves the stored classes, overrides, settings,
\* categories, announcement and scene store as they were.
C8_ResolveIdempotent ==
  [][\A s \in Students :
       IsPolicyOf(req', s) =>
         /\ lastPolicy[s] # None =>
              NonPending(resp') = lastPolicy[s][1].answer
         /\ PolicyState' = PolicyState]_vars

\* A second resolve in a row for a student, under a current blocked scene
\* whose pattern is in the response and not in the stored class.
C8_Witness ==
  /\ IsPolicyOf(req, "s1")
  /\ lastPolicy["s1"] # None
  /\ lastPolicy["s1"][1].calls = 2
  /\ HasCurrentScene
  /\ CurrentScene.type = "blocked"
  /\ resp.teacher_blocks = <<"cb", "sb">>
  /\ d.classes.period1.teacher_blocks = <<"cb">>

\* ------------------------------------------------ schedules, ai_routes.py
\* A string is the sequence of the pieces that its colons separate: "07:30"
\* is <<"07", "30">>, "" is <<"">>. A start or end is a string or None.
\* int(text) for a piece: Some(n), or None when int raises ValueError.
ToInt(tok) ==
  CASE tok = "00" -> Some(0)
    [] tok = "06" -> Some(6)
    [] tok \in {"07", "7"} -> Some(7)
    [] tok = "22" -> Some(22)
    [] tok = "23" -> Some(23)
    [] tok = "24" -> Some(24)
    [] tok = "30" -> Some(30)
    [] tok = "60" -> Some(60)
    [] tok = "-1" -> Some(-1)
    [] OTHER -> None

\* str(val).split(":", 1): the first piece, and the rest with its colons.
Split1(val) ==
  IF Len(val) = 1 THEN <<<<val[1]>>>> ELSE <<<<val[1]>>, Tail(val)>>

\* int(part): a part that still holds a colon is no number.
IntOf(part) == IF Len(part) = 1 THEN ToInt(part[1]) ELSE None

\* max(lo, min(hi, n))
Clamp(lo, hi, n) == IF n < lo THEN lo ELSE IF n > hi THEN hi ELSE n

\* Mutant of _parse_hhmm: the hour and the minute are not clamped.
_parse_hhmm_raw(val, default_h, default_m) ==
  IF val = None \/ val = <<"">> THEN <<default_h, default_m>>
  ELSE LET parts == Split1(val)
           h == IntOf(parts[1])
           m == IF Len(parts) > 1 THEN IntOf(parts[2]) ELSE Some(0)
       IN IF h = None \/ m = None THEN <<default_h, default_m>>
          ELSE <<h[1], m[1]>>

\* _parse_hhmm(val, default_h, default_m): None and "" are falsy.
_parse_hhmm(val, default_h, default_m) ==
  IF val = None \/ val = <<"">> THEN <<default_h, default_m>>
  ELSE LET parts == Split1(val)
           h == IntOf(parts[1])
           m == IF Len(parts) > 1 THEN IntOf(parts[2]) ELSE Some(0)
       IN IF h = None \/ m = None THEN <<default_h, default_m>>
          ELSE <<Clamp(0, 23, h[1]), Clamp(0, 59, m[1])>>

\* bool(x) of sched.get(key): a missing key is None, which is falsy.
Truthy(opt) == opt # None /\ opt[1]

\* sh * 60 + sm and eh * 60 + em
StartMinutes(sched) ==
  LET t == _parse_hhmm(sched.start, 0, 0) IN t[1] * 60 + t[2]

\* Mutant of EndMinutes: a missing end is the end of the day, 24:00.
EndMinutes_midnight(sched) ==
  LET t == _parse_hhmm(sched.end, 24, 0) IN t[1] * 60 + t[2]

EndMinutes(sched) ==
  LET t == _parse_hhmm(sched.end, 23, 59) IN t[1] * 60 + t[2]

\* Mutant of _is_schedule_active: start == end is a window that wraps.
_is_schedule_active_wraps(sched, lt) ==
  LET cur_minutes == lt.tm_hour * 60 + lt.tm_min
      start_minutes == StartMinutes(sched)
      end_minutes == EndMinutes(sched)
  IN IF ~sched.isdict THEN FALSE
     ELSE IF ~Truthy(sched.enabled) THEN FALSE
     ELSE IF sched.weekdays_only /\ lt.tm_wday >= 5 THEN FALSE
     ELSE IF start_minutes < end_minutes
       THEN start_minutes <= cur_minutes /\ cur_minutes < end_minutes
     ELSE ~(end_minutes <= cur_minutes /\ cur_minutes < start_minutes)

\* Mutant of _is_schedule_active: the end of a same-day window is inside it.
_is_schedule_active_closed(sched, lt) ==
  LET cur_minutes == lt.tm_hour * 60 + lt.tm_min
      start_minutes == StartMinutes(sched)
      end_minutes == EndMinutes(sched)
  IN IF ~sched.isdict THEN FALSE
     ELSE IF ~Truthy(sched.enabled) THEN FALSE
     ELSE IF sched.weekdays_only /\ lt.tm_wday >= 5 THEN FALSE
     ELSE IF start_minutes = end_minutes THEN FALSE
     ELSE IF start_minutes < end_minutes
       THEN start_minutes <= cur_minutes /\ cur_minutes <= end_minutes
     ELSE ~(end_minutes <= cur_minutes /\ cur_minutes < start_minutes)

\* Mutant of _is_schedule_active: the end of a wrapping window is inside it.
_is_schedule_active_open(sched, lt) ==
  LET cur_minutes == lt.tm_hour * 60 + lt.tm_min
      start_minutes == StartMinutes(sched)
      end_minutes == EndMinutes(sched)
  IN IF ~sched.isdict THEN FALSE
     ELSE IF ~Truthy(sched.enabled) THEN FALSE
     ELSE IF sched.weekdays_only /\ lt.tm_wday >= 5 THEN FALSE
     ELSE IF start_minutes = end_minutes THEN FALSE
     ELSE IF start_minutes < end_minutes
       THEN start_minutes <= cur_minutes /\ cur_minutes < end_minutes
     ELSE ~(end_minutes < cur_minutes /\ cur_minutes < start_minutes)

\* Mutant of _is_schedule_active: weekdays_only is not looked at.
_is_schedule_active_everyday(sched, lt) ==
  LET cur_minutes == lt.tm_hour * 60 + lt.tm_min
      start_minutes == StartMinutes(sched)
      end_minutes == EndMinutes(sched)
  IN IF ~sched.isdict THEN FALSE
     ELSE IF ~Truthy(sched.enabled) THEN FALSE
     ELSE IF FALSE THEN FALSE
     ELSE IF start_minutes = end_minutes THEN FALSE
     ELSE IF start_minutes < end_minutes
       THEN start_minutes <= cur_minutes /\ cur_minutes < end_minutes
     ELSE ~(end_minutes <= cur_minutes /\ cur_minutes < start_minutes)

\* _is_schedule_active(sched, now_ts), lt being time.localtime(now_ts).
_is_schedule_active(sched, lt) ==
  LET cur_minutes == lt.tm_hour * 60 + lt.tm_min
      start_minutes == StartMinutes(sched)
      end_minutes == EndMinutes(sched)
  IN IF ~sched.isdict THEN FALSE
     ELSE IF ~Truthy(sched.enabled) THEN FALSE
     ELSE IF sched.weekdays_only /\ lt.tm_wday >= 5 THEN FALSE
     ELSE IF start_minutes = end_minutes THEN FALSE
     ELSE IF start_minutes < end_minutes
       THEN start_minutes <= cur_minutes /\ cur_minutes < end_minutes
     ELSE ~(end_minutes <= cur_minutes /\ cur_minutes < start_minutes)

\* Values of "start" and "end" in a schedule on file.
HhMm ==
  {None, <<"">>, <<"xx">>, <<"7">>, <<"07", "00">>, <<"07", "30">>,
   <<"7", "30">>, <<"07", "30", "00">>, <<"00", "00">>, <<"-1", "00">>,
   <<"24", "00">>, <<"23", "00">>, <<"23", "60">>, <<"22", "00">>,
   <<"06", "00">>}

\* The schedules on file: a JSON object, or a JSON value that is no object.
Schedules ==
  [isdict : {TRUE}, enabled : {None, Some(FALSE), Some(TRUE)},
   weekdays_only : BOOLEAN, start : HhMm, end : HhMm]
  \cup {[isdict |-> FALSE, enabled |-> None, weekdays_only |-> FALSE,
         start |-> None, end |-> None]}

\* Local times: Monday, Friday, Saturday, Sunday; the hours and minutes at,
\* around and between the starts and ends above.
Days == {0, 4, 5, 6}
Hours == {0, 2, 6, 7, 12, 22, 23}
Minutes == {0, 30, 58, 59}
LocalTimes == [tm_wday : Days, tm_hour : Hours, tm_min : Minutes]

\* The first of these local times after lt, the week going round.
Later(S, x) == {y \in S : y > x}

Tick(lt) ==
  IF Later(Minutes, lt.tm_min) # {}
    THEN [lt EXCEPT !.tm_min = Min(Later(Minutes, lt.tm_min))]
  ELSE IF Later(Hours, lt.tm_hour) # {}
    THEN [lt EXCEPT !.tm_hour = Min(Later(Hours, lt.tm_hour)),
                    !.tm_min = Min(Minutes)]
  ELSE [tm_wday |-> IF Later(Days, lt.tm_wday) # {}
                      THEN Min(Later(Days, lt.tm_wday)) ELSE Min(Days),
        tm_hour |-> Min(Hours), tm_min |-> Min(Minutes)]

\* A category's schedule is on file and the clock shows some local time.
InitSched ==
  /\ Boot
  /\ BootMem
  /\ eval \in [at : {"filed"}, sched : Schedules, lt : LocalTimes,
               active : {FALSE}]
  /\ call = NoCall
  /\ db = SeededDb

NextSched ==
  \* api_classify: active = _is_schedule_active(sched)
  \/ /\ eval.at = "filed"
     /\ eval' = [eval EXCEPT !.at = "answered",
                             !.active = _is_schedule_active(eval.sched, eval.lt)]
     /\ UNCHANGED <<progVars, histVars, call, db, memVars>>
  \* Time passes.
  \/ /\ eval' = [eval EXCEPT !.at = "filed", !.lt = Tick(eval.lt),
                             !.active = FALSE]
     /\ UNCHANGED <<progVars, histVars, call, db, memVars>>

SpecSched == InitSched /\ [][NextSched]_vars

\* C39: an enabled schedule with neither start nor end is answered active at
\* every minute from 00:00 to 23:58 and inactive at 23:59, on the days that
\* weekdays_only does not exclude; and a schedule whose start is not after
\* its end (no wrap window) is answered inactive at some minute of every
\* day.
C39_DefaultWindowStopsShort ==
  (/\ eval.at = "answered"
   /\ eval.sched.isdict
   /\ Truthy(eval.sched.enabled)) =>
    /\ (/\ eval.sched.start = None
        /\ eval.sched.end = None
        /\ ~(eval.sched.weekdays_only /\ eval.lt.tm_wday >= 5)) =>
         eval.active = ~(eval.lt.tm_hour = 23 /\ eval.lt.tm_min = 59)
    /\ (/\ StartMinutes(eval.sched) <= EndMinutes(eval.sched)
        /\ eval.lt.tm_hour = 0 /\ eval.lt.tm_min = 0) =>
         \E h \in 0..23, m \in 0..59 :
           ~_is_schedule_active(eval.sched,
                                [eval.lt EXCEPT !.tm_hour = h, !.tm_min = m])

\* C39 witness: a schedule that is enabled and holds nothing else is asked
\* on a Monday at 23:59 and answered inactive.
C39_Witness ==
  /\ eval.at = "answered"
  /\ eval.sched.isdict
  /\ Truthy(eval.sched.enabled)
  /\ ~eval.sched.weekdays_only
  /\ eval.sched.start = None /\ eval.sched.end = None
  /\ eval.lt = [tm_wday |-> 0, tm_hour |-> 23, tm_min |-> 59]
  /\ ~eval.active

\* C10: an enabled schedule whose start and end parse, default and clamp to
\* the same minute of the day is answered inactive, whatever the local time
\* and the day of the week.
C10_DegenerateWindowOff ==
  (/\ eval.at = "answered"
   /\ eval.sched.isdict
   /\ Truthy(eval.sched.enabled)
   /\ StartMinutes(eval.sched) = EndMinutes(eval.sched)) => ~eval.active

\* "24:00" and "23:00" clamp to the same minute; asked on a Sunday at 23:00
\* of a schedule that runs every day.
C10_Witness ==
  /\ eval.at = "answered"
  /\ eval.sched.isdict
  /\ Truthy(eval.sched.enabled)
  /\ ~eval.sched.weekdays_only
  /\ eval.sched.start = <<"24", "00">>
  /\ eval.sched.end = <<"23", "00">>
  /\ eval.lt = [tm_wday |-> 6, tm_hour |-> 23, tm_min |-> 0]
  /\ ~eval.active

\* The schedule was answered past its guards: it is a mapping, enabled, and
\* the day is not one that weekdays_only excludes.
PastGuards ==
  /\ eval.at = "answered"
  /\ eval.sched.isdict
  /\ Truthy(eval.sched.enabled)
  /\ ~(eval.sched.weekdays_only /\ eval.lt.tm_wday \in {5, 6})

CurMinutes == eval.lt.tm_hour * 60 + eval.lt.tm_min

\* C11: past the guards, a schedule whose start is before its end is
\* answered active exactly when start <= current minute of day < end.
C11_NormalWindow ==
  (PastGuards /\ StartMinutes(eval.sched) < EndMinutes(eval.sched)) =>
    (eval.active <=>
       (StartMinutes(eval.sched) <= CurMinutes
          /\ CurMinutes < EndMinutes(eval.sched)))

\* 07:00 to 07:30 asked at 07:30: the end is outside the window.
C11_Witness ==
  /\ PastGuards
  /\ eval.sched.start = <<"07", "00">>
  /\ eval.sched.end = <<"07", "30">>
  /\ eval.lt.tm_hour = 7 /\ eval.lt.tm_min = 30
  /\ ~eval.active

\* eval is the answer for 22:00 to 06:00 at the given time of day.
Night(h, m) ==
  /\ PastGuards
  /\ eval.sched.start = <<"22", "00">>
  /\ eval.sched.end = <<"06", "00">>
  /\ eval.lt.tm_hour = h /\ eval.lt.tm_min = m

\* C12: past the guards, a schedule whose start is after its end is answered
\* active exactly when the current minute of day is not in [end, start);
\* 22:00 to 06:00 is active at 23:00, at 02:00 and at 22:00, and inactive at
\* 12:00 and at 06:00.
C12_WrapWindow ==
  /\ (PastGuards /\ StartMinutes(eval.sched) > EndMinutes(eval.sched)) =>
       (eval.active <=>
          ~(EndMinutes(eval.sched) <= CurMinutes
              /\ CurMinutes < StartMinutes(eval.sched)))
  /\ (Night(23, 0) \/ Night(2, 0) \/ Night(22, 0)) => eval.active
  /\ (Night(12, 0) \/ Night(6, 0)) => ~eval.active

\* 22:00 to 06:00 asked at 06:00 sharp.
C12_Witness == Night(6, 0) /\ ~eval.active

\* C13: a schedule that is no mapping, or whose enabled is false or missing,
\* or that is weekdays_only and asked on a Saturday or a Sunday, is answered
\* inactive whatever its start, its end and the time of day.
C13_Guards ==
  (/\ eval.at = "answered"
   /\ \/ ~eval.sched.isdict
      \/ eval.sched.enabled \in {None, Some(FALSE)}
      \/ eval.sched.weekdays_only /\ eval.lt.tm_wday \in {5, 6}) =>
    ~eval.active

\* An enabled all-day weekdays_only schedule asked on a Saturday at noon.
C13_Witness ==
  /\ eval.at = "answered"
  /\ eval.sched.isdict
  /\ eval.sched.enabled = Some(TRUE)
  /\ eval.sched.weekdays_only
  /\ eval.sched.start = None /\ eval.sched.end = None
  /\ eval.lt = [tm_wday |-> 5, tm_hour |-> 12, tm_min |-> 0]
  /\ ~eval.active

\* The starts and ends above that are missing, empty or no HH:MM.
Unparsable == {None, <<"">>, <<"xx">>, <<"07", "30", "00">>}

\* C14: the start and the end of an answered schedule parse to an hour in
\* 0..23 and a minute in 0..59, hence to a minute of day in 0..1439; a
\* missing or unparsable start is 00:00, a missing or unparsable end 23:59,
\* and "07:30" is hour 7, minute 30.
C14_ParseClamped ==
  PastGuards =>
    LET st == _parse_hhmm(eval.sched.start, 0, 0)
        en == _parse_hhmm(eval.sched.end, 23, 59)
    IN /\ st[1] \in 0..23 /\ st[2] \in 0..59
       /\ en[1] \in 0..23 /\ en[2] \in 0..59
       /\ StartMinutes(eval.sched) \in 0..1439
       /\ EndMinutes(eval.sched) \in 0..1439
       /\ eval.sched.start \in Unparsable => st = <<0, 0>>
       /\ eval.sched.end \in Unparsable => en = <<23, 59>>
       /\ eval.sched.start = <<"07", "30">> => st = <<7, 30>>

\* A start below the range and an end that is no number: the window is the
\* whole day but its last minute, and noon is inside it.
C14_Witness ==
  /\ PastGuards
  /\ eval.sched.start = <<"-1", "00">>
  /\ eval.sched.end = <<"xx">>
  /\ eval.lt.tm_hour = 12
  /\ eval.active

\* ----------------------------------------------- classify, ai_classifier.py
\* A text (a url, a host, a domain, a page body) is what the code asks of
\* it: the set of the keywords that are substrings of it.
\* Keywords sampled from KEYWORDS; "twitch" is in two lists.
KEYWORDS ==
  [c \in CategoryNames |->
     CASE c = "Games" -> {"roblox", "twitch"}
       [] c = "Streaming Services" -> {"twitch"}
       [] c = "General / Education" -> {".edu"}
       [] c = "Allow only" -> {"canvas"}
       [] OTHER -> {}]

Phrases == UNION {KEYWORDS[c] : c \in CategoryNames}

\* A url: the keywords in the lower-cased url, in its host and in its
\* domain; whether "edu" is in the domain, and whether the domain ends in
\* ".edu"; whether "wp-login" or "/wp-content/" is in the url; the
\* allowlist entries in the url.
UrlOf(url, host, domain, edu, ends_edu, wp, allow) ==
  [url |-> url, host |-> host, domain |-> domain, edu |-> edu,
   ends_edu |-> ends_edu, wp |-> wp, allow |-> allow]

\* The host is part of the url and the domain part of the host; a domain
\* that ends in ".edu" holds ".edu", and one that holds ".edu" holds "edu".
Urls ==
  {r \in [url : SUBSET Phrases, host : SUBSET Phrases,
          domain : SUBSET Phrases, edu : BOOLEAN, ends_edu : BOOLEAN,
          wp : BOOLEAN, allow : {{}}] :
     /\ r.domain \subseteq r.host
     /\ r.host \subseteq r.url
     /\ (".edu" \in r.domain => r.edu)
     /\ (r.ends_edu => ".edu" \in r.domain)}

\* Page texts once the tags are stripped: None is the empty text.
Texts == {None, Some({}), Some({"canvas"}), Some({"roblox", "twitch"})}

\* The html of a request: None when absent or null, the empty string, or a
\* string with a text.
Htmls ==
  {None, Some([empty |-> TRUE, text |-> None])}
  \cup {Some([empty |-> FALSE, text |-> t]) : t \in Texts}

\* What requests.get does: it raises (a timeout among the causes), or
\* answers with a status, a content type and a page.
Responses ==
  {[raises |-> TRUE, ok |-> FALSE, text_type |-> FALSE, text |-> None]}
  \cup [raises : {FALSE}, ok : BOOLEAN, text_type : BOOLEAN,
        text : {Some([empty |-> FALSE, text |-> Some({"canvas"})])}]
  \cup {[raises |-> FALSE, ok |-> TRUE, text_type |-> TRUE,
         text |-> Some([empty |-> TRUE, text |-> None])]}

\* Mutant of _fetch_html: the page, whatever the status and the type.
_fetch_html_any(net) == IF net.raises THEN None ELSE net.text

\* _fetch_html(url), net being what requests.get does
_fetch_html(net) ==
  IF ~net.raises /\ net.ok /\ net.text_type THEN net.text ELSE None

\* bool(html)
HtmlTruthy(html) == html # None /\ ~html[1].empty

\* _textify(html)
_textify(html) == IF ~HtmlTruthy(html) THEN None ELSE html[1].text

\* _textify(html) if html else _textify(_fetch_html(url))
Body(html, net) ==
  IF HtmlTruthy(html) THEN _textify(html) ELSE _textify(_fetch_html(net))

\* tokens = [url.lower(), host.lower(), domain.lower()], and body if any
TokensOf(url, body) ==
  <<url.url, url.host, url.domain>> \o
    (IF body # None THEN <<body[1]>> ELSE <<>>)

\* Mutant of Counts: a keyword counts once, however many tokens hold it.
Counts_once(url, body) ==
  LET tokens == TokensOf(url, body)
  IN [c \in CategoryNames |->
        Cardinality({kw \in KEYWORDS[c] :
                       \E i \in 1..Len(tokens) : kw \in tokens[i]})]

\* scores after the loops: the pairs (keyword, token) with the keyword in
\* the token.
Counts(url, body) ==
  LET tokens == TokensOf(url, body)
  IN [c \in CategoryNames |->
        Cardinality({pr \in KEYWORDS[c] \X (1..Len(tokens)) :
                       pr[1] \in tokens[pr[2]]})]

\* scores after the special-case rules.
Scores(url, body) ==
  LET counted == Counts(url, body)
  IN [c \in CategoryNames |->
        counted[c]
        + (IF c = "General / Education" /\ url.edu THEN 3 ELSE 0)
        + (IF c = "Blogs" /\ url.wp THEN 1 ELSE 0)]

\* Mutant of ArgMax: the last of the categories with the highest score.
ArgMax_last(scores) ==
  LET all == {scores[CATEGORIES[i]] : i \in DOMAIN CATEGORIES}
      highest == CHOOSE x \in all : \A y \in all : y <= x
      top == {i \in DOMAIN CATEGORIES : scores[CATEGORIES[i]] = highest}
  IN CATEGORIES[CHOOSE i \in top : \A j \in top : j <= i]

\* max(scores, key=lambda c: scores[c]): the first of the categories with
\* the highest score, in the order of the dict, which is CATEGORIES'.
ArgMax(scores) ==
  LET all == {scores[CATEGORIES[i]] : i \in DOMAIN CATEGORIES}
      highest == CHOOSE x \in all : \A y \in all : y <= x
      top == {i \in DOMAIN CATEGORIES : scores[CATEGORIES[i]] = highest}
  IN CATEGORIES[Min(top)]

RECURSIVE SumTo(_, _)
\* sum(scores.values())
SumTo(scores, n) ==
  IF n = 0 THEN 0 ELSE scores[CATEGORIES[n]] + SumTo(scores, n - 1)

\* Mutant of classify: the sum of the scores is the denominator as it is.
classify_unguarded(url, html, net) ==
  LET scores == Scores(url, Body(html, net))
      top == ArgMax(scores)
      best_cat == IF scores["Allow only"] > 0 THEN "Allow only"
                  ELSE IF scores[top] = 0 THEN "Uncategorized" ELSE top
  IN [category |-> best_cat,
      confidence |-> <<scores[best_cat], SumTo(scores, Len(CATEGORIES))>>,
      domain |-> url.domain, host |-> url.host]

\* Mutant of classify: "Allow only" competes like any category.
classify_max(url, html, net) ==
  LET scores == Scores(url, Body(html, net))
      top == ArgMax(scores)
      best_cat == IF scores[top] = 0 THEN "Uncategorized" ELSE top
      sum == SumTo(scores, Len(CATEGORIES))
  IN [category |-> best_cat,
      confidence |-> <<scores[best_cat], IF sum = 0 THEN 1 ELSE sum>>,
      domain |-> url.domain, host |-> url.host]

\* classify(url, html), net being what the network returns for the page;
\* the confidence is the pair of the numerator and the denominator.
classify(url, html, net) ==
  LET scores == Scores(url, Body(html, net))
      top == ArgMax(scores)
      best_cat == IF scores["Allow only"] > 0 THEN "Allow only"
                  ELSE IF scores[top] = 0 THEN "Uncategorized" ELSE top
      sum == SumTo(scores, Len(CATEGORIES))
  IN [category |-> best_cat,
      confidence |-> <<scores[best_cat], IF sum = 0 THEN 1 ELSE sum>>,
      domain |-> url.domain, host |-> url.host]

\* A request to classify a page has arrived.
InitClassifier ==
  /\ Boot
  /\ BootMem
  /\ eval = NoEval
  /\ db = SeededDb
  /\ call \in [at : {"asked"}, url : Urls, html : Htmls, net : Responses,
               counted : {None}, scores : {None}, result : {None}]

NextClassifier ==
  \/ /\ call.at = "asked"
     /\ call' = [call EXCEPT
                   !.at = "answered",
                   !.counted = Some(Counts(call.url,
                                           Body(call.html, call.net))),
                   !.scores = Some(Scores(call.url,
                                          Body(call.html, call.net))),
                   !.result = Some(classify(call.url, call.html, call.net))]
     /\ UNCHANGED <<progVars, histVars, eval, db, memVars>>
  \* The next request for the same url, with some html or none.
  \/ /\ call.at = "answered"
     /\ \E html \in Htmls :
          call' = [call EXCEPT !.at = "asked", !.html = html,
                               !.counted = None, !.scores = None,
                               !.result = None]
     /\ UNCHANGED <<progVars, histVars, eval, db, memVars>>

SpecClassifier == InitClassifier /\ [][NextClassifier]_vars

\* The texts classify searched in the call answered.
Searched ==
  {call.url.url, call.url.host, call.url.domain}
  \cup (IF Body(call.html, call.net) # None
          THEN {Body(call.html, call.net)[1]} ELSE {})

\* An "Allow only" keyword is in one of the texts searched.
AllowOnlyHit == \E t \in Searched : KEYWORDS["Allow only"] \cap t # {}

\* C19: a call in which some searched text holds an "Allow only" keyword
\* is answered "Allow only", whatever the other categories score.
C19_AllowOnlyFirst ==
  (call.at = "answered" /\ AllowOnlyHit) =>
    call.result[1].category = "Allow only"

\* "canvas" in the page body only, "roblox" in the url, host and domain:
\* Games scores 3 and "Allow only" 1.
C19_Witness ==
  /\ call.at = "answered"
  /\ call.url.domain = {"roblox"}
  /\ call.url.url = {"roblox"}
  /\ ~call.url.edu /\ ~call.url.wp
  /\ call.html = Some([empty |-> FALSE, text |-> Some({"canvas"})])
  /\ Scores(call.url, Body(call.html, call.net))["Games"] = 3
  /\ Scores(call.url, Body(call.html, call.net))["Allow only"] = 1
  /\ call.result[1].category = "Allow only"

\* The place of a category in CATEGORIES.
Place(c) == CHOOSE i \in DOMAIN CATEGORIES : CATEGORIES[i] = c

\* C20: a call in which no searched text holds an "Allow only" keyword is
\* answered "Uncategorized" if every category scores 0, and otherwise with
\* a category of the highest score that no category before it in CATEGORIES
\* equals in score.
C20_HighestThenOrder ==
  (call.at = "answered" /\ ~AllowOnlyHit) =>
    LET sc == Scores(call.url, Body(call.html, call.net))
        best == call.result[1].category
    IN IF \A c \in CategoryNames : sc[c] = 0
         THEN best = "Uncategorized"
       ELSE /\ \A c \in CategoryNames : sc[c] <= sc[best]
            /\ \A c \in CategoryNames :
                 Place(c) < Place(best) => sc[c] < sc[best]

\* "twitch" alone: Games and Streaming Services tie, Games comes first.
C20_Witness ==
  /\ call.at = "answered"
  /\ call.url.url = {"twitch"}
  /\ call.url.domain = {"twitch"}
  /\ ~call.url.edu /\ ~call.url.wp
  /\ Body(call.html, call.net) = None
  /\ call.result[1].category = "Games"

C22_Deterministic ==
  (call.at = "answered" /\ call.html # None) =>
    \A net \in Responses :
      classify(call.url, call.html, net) = call.result[1]

\* C23: the special-case rules add 3 to "General / Education" when the
\* domain ends in ".edu" and nothing when it does not, and 1 to "Blogs"
\* when "wp-login" or "/wp-content/" is in the url.
C23_Boosts ==
  call.at = "answered" =>
    /\ call.scores[1]["General / Education"]
         - call.counted[1]["General / Education"]
         = IF call.url.ends_edu THEN 3 ELSE 0
    /\ call.scores[1]["Blogs"] - call.counted[1]["Blogs"]
         = IF call.url.wp THEN 1 ELSE 0

\* C24: after the loops the score of a category is the number of its
\* keywords in the url, plus the number in the host, plus the number in the
\* domain, plus the number in the body when there is one; 0 for a category
\* with no keyword or no match.
C24_Scoring ==
  call.at = "answered" =>
    \A c \in CategoryNames :
      call.counted[1][c] =
        Cardinality(KEYWORDS[c] \cap call.url.url)
        + Cardinality(KEYWORDS[c] \cap call.url.host)
        + Cardinality(KEYWORDS[c] \cap call.url.domain)
        + (IF Body(call.html, call.net) = None THEN 0
           ELSE Cardinality(KEYWORDS[c] \cap Body(call.html, call.net)[1]))

\* "roblox" and "twitch" in the url, the host, the domain and the body:
\* Games counts 8, Streaming Services 4, "Uncategorized" 0.
C24_Witness ==
  /\ call.at = "answered"
  /\ call.counted[1]["Games"] = 8
  /\ call.counted[1]["Streaming Services"] = 4
  /\ call.counted[1]["Uncategorized"] = 0
  /\ call.counted[1]["Global Block All"] = 0

\* C25: with no html, when requests.get raises or answers with a status
\* that is not OK or a type that is not text, there is no body, and the
\* answer is that of the url, the host and the domain alone (the one an
\* html with no text gets, which is not fetched).
C25_FetchFailure ==
  (/\ call.at = "answered"
   /\ ~HtmlTruthy(call.html)
   /\ (call.net.raises \/ ~call.net.ok \/ ~call.net.text_type)) =>
    /\ Body(call.html, call.net) = None
    /\ call.result[1] =
         classify(call.url, Some([empty |-> FALSE, text |-> None]), call.net)
    /\ \A c \in CategoryNames :
         call.counted[1][c] =
           Cardinality(KEYWORDS[c] \cap call.url.url)
           + Cardinality(KEYWORDS[c] \cap call.url.host)
           + Cardinality(KEYWORDS[c] \cap call.url.domain)

\* A page that answers 404 with "canvas" in it, for a games url: Games.
C25_Witness ==
  /\ call.at = "answered"
  /\ call.html = None
  /\ ~call.net.raises /\ ~call.net.ok /\ call.net.text_type
  /\ call.net.text = Some([empty |-> FALSE, text |-> Some({"canvas"})])
  /\ call.url.url = {"roblox"}
  /\ ~call.url.edu /\ ~call.url.wp
  /\ call.result[1].category = "Games"

\* --------------------------------------- the block decision, ai_routes.py
\* A schedule on file is json.dumps of what was posted: a schedule as above,
\* or a JSON value that Python takes for false, such as {}.
EmptyJson == [json |-> "{}"]

\* bool(json.loads(row))
JsonTruthy(x) == "json" \notin DOMAIN x

\* A request body of POST /api/ai/categories: blocked, block_url and
\* schedule are None when absent or null.
CategoryBody(name, blocked, block_url_present, block_url, schedule) ==
  [name |-> name, blocked |-> blocked,
   block_url_present |-> block_url_present, block_url |-> block_url,
   schedule |-> schedule]

\* INSERT OR IGNORE INTO categories(name, blocked, block_url), for each of
\* names: a row (name, 0, None) where the table has none of that name.
InsertOrIgnore(rows, names) ==
  [n \in DOMAIN rows \cup names |->
     IF n \in DOMAIN rows THEN rows[n]
     ELSE [blocked |-> FALSE, block_url |-> None]]

\* Mutant of ensure_schema: nothing is seeded.
ensure_schema_none(store) == store

\* ensure_schema(): the tables are there; the categories table gets a row
\* for each name of CATEGORIES it has none for.
ensure_schema(store) ==
  [store EXCEPT !.categories = InsertOrIgnore(store.categories, CategoryNames)]

\* Mutant of categories: blocked is written whether it was sent or not.
categories_all(body) ==
  LET store == ensure_schema(db)
      rows == InsertOrIgnore(store.categories, {body.name})
  IN IF body.name = "" THEN
       /\ resp' = [status |-> 400, ok |-> FALSE]
       /\ db' = store
     ELSE
       /\ db' = [store EXCEPT
                   !.categories =
                      [rows EXCEPT
                         ![body.name].blocked = Get(body.blocked, FALSE),
                         ![body.name].block_url =
                            IF body.block_url_present THEN body.block_url
                            ELSE @],
                   !.schedules =
                      IF body.schedule = None THEN @
                      ELSE [n \in DOMAIN @ \cup {body.name} |->
                              IF n = body.name THEN body.schedule ELSE @[n]]]
       /\ resp' = [status |-> 200, ok |-> TRUE]

\* POST /api/ai/categories
categories(body) ==
  LET store == ensure_schema(db)
      rows == InsertOrIgnore(store.categories, {body.name})
  IN IF body.name = "" THEN
       /\ resp' = [status |-> 400, ok |-> FALSE]
       /\ db' = store
     ELSE
       /\ db' = [store EXCEPT
                   !.categories =
                      [rows EXCEPT
                         ![body.name].blocked =
                            IF body.blocked # None THEN body.blocked[1]
                            ELSE @,
                         ![body.name].block_url =
                            IF body.block_url_present THEN body.block_url
                            ELSE @],
                   !.schedules =
                      IF body.schedule = None THEN @
                      ELSE [n \in DOMAIN @ \cup {body.name} |->
                              IF n = body.name THEN body.schedule ELSE @[n]]]
       /\ resp' = [status |-> 200, ok |-> TRUE]

DefaultRedirect == "https://blocked.gdistrict.org/Gschool%20block"

\* allowed_domains
AlwaysAllowed == {"blocked.gdistrict.org"}

\* The flag of a category as its schedule on file, if any, turns it.
Scheduled(store, name, flag, lt) ==
  LET srow == store.schedules[name]
  IN IF srow # None /\ JsonTruthy(srow[1])
       THEN _is_schedule_active(srow[1], lt)
     ELSE flag

\* Mutant of Decide: a schedule can only switch a blocked category off.
Decide_gated(store, url, html, net, lt) ==
  LET result == classify(url, html, net)
      default_redirect == Get(store.blocked_redirect, DefaultRedirect)
      row == store.categories[result.category]
      global_block_on ==
        Scheduled(store, "Global Block All",
                  store.categories["Global Block All"].blocked, lt)
      cat_blocked ==
        row.blocked /\ Scheduled(store, result.category, row.blocked, lt)
      allowed == \E a \in {store.allowlist[i] : i \in DOMAIN store.allowlist}
                          \cup AlwaysAllowed : a \in url.allow
  IN IF global_block_on /\ ~allowed
       THEN [status |-> 200, ok |-> TRUE, result |-> result,
             blocked |-> TRUE, block_url |-> default_redirect]
     ELSE [status |-> 200, ok |-> TRUE, result |-> result,
           blocked |-> cat_blocked,
           block_url |-> IF row.block_url \notin {None, Some("")}
                           THEN row.block_url[1] ELSE default_redirect]

\* Mutant of Decide: the schedule of Global Block All is not looked at.
Decide_static(store, url, html, net, lt) ==
  LET result == classify(url, html, net)
      default_redirect == Get(store.blocked_redirect, DefaultRedirect)
      row == store.categories[result.category]
      global_block_on == store.categories["Global Block All"].blocked
      cat_blocked == Scheduled(store, result.category, row.blocked, lt)
      allowed == \E a \in {store.allowlist[i] : i \in DOMAIN store.allowlist}
                          \cup AlwaysAllowed : a \in url.allow
  IN IF global_block_on /\ ~allowed
       THEN [status |-> 200, ok |-> TRUE, result |-> result,
             blocked |-> TRUE, block_url |-> default_redirect]
     ELSE [status |-> 200, ok |-> TRUE, result |-> result,
           blocked |-> cat_blocked,
           block_url |-> IF row.block_url \notin {None, Some("")}
                           THEN row.block_url[1] ELSE default_redirect]

\* What api_classify answers from the store, lt being the local time.
Decide(store, url, html, net, lt) ==
  LET result == classify(url, html, net)
      default_redirect == Get(store.blocked_redirect, DefaultRedirect)
      row == store.categories[result.category]
      global_block_on ==
        Scheduled(store, "Global Block All",
                  store.categories["Global Block All"].blocked, lt)
      cat_blocked == Scheduled(store, result.category, row.blocked, lt)
      allowed == \E a \in {store.allowlist[i] : i \in DOMAIN store.allowlist}
                          \cup AlwaysAllowed : a \in url.allow
  IN IF global_block_on /\ ~allowed
       THEN [status |-> 200, ok |-> TRUE, result |-> result,
             blocked |-> TRUE, block_url |-> default_redirect]
     ELSE [status |-> 200, ok |-> TRUE, result |-> result,
           blocked |-> cat_blocked,
           block_url |-> IF row.block_url \notin {None, Some("")}
                           THEN row.block_url[1] ELSE default_redirect]

\* POST /api/ai/classify
api_classify(url, html, net, lt) ==
  /\ resp' = Decide(ensure_schema(db), url, html, net, lt)
  /\ db' = ensure_schema(db)

\* The requests of the decision's model: a games page, the same page under
\* the always-allowed domain, the same page with an allowlist entry in its
\* url, and a page with no keyword; html that names an "Allow only" keyword.
Pages ==
  {UrlOf({"roblox"}, {"roblox"}, {"roblox"}, FALSE, FALSE, FALSE, {}),
   UrlOf({"roblox"}, {}, {}, FALSE, FALSE, FALSE, {"blocked.gdistrict.org"}),
   UrlOf({"roblox"}, {"roblox"}, {"roblox"}, FALSE, FALSE, FALSE, {"khan"}),
   UrlOf({}, {}, {}, FALSE, FALSE, FALSE, {})}
PageHtmls == {None, Some([empty |-> FALSE, text |-> Some({"canvas"})])}

\* Schedules posted: all day, switched off, 07:00 to 07:30; and {}.
AllDay ==
  [isdict |-> TRUE, enabled |-> Some(TRUE), weekdays_only |-> FALSE,
   start |-> None, end |-> None]
PostedSchedules ==
  {EmptyJson, AllDay, [AllDay EXCEPT !.enabled = Some(FALSE)],
   [AllDay EXCEPT !.start = <<"07", "00">>, !.end = <<"07", "30">>]}

\* Monday at 07:00 and at 12:00.
DecideTimes == [tm_wday : {0}, tm_hour : {7, 12}, tm_min : {0}]

\* Bodies that set one field, or none, of "Games" or "Global Block All";
\* the block_url of "Global Block All", which nothing reads, is left alone.
CategoryBodies ==
  {body \in [name : {"Games", "Global Block All"},
             blocked : {None, Some(FALSE), Some(TRUE)},
             block_url_present : BOOLEAN,
             block_url : {None, Some("https://games.example")},
             schedule : {None} \cup {Some(x) : x \in PostedSchedules}] :
     /\ body.block_url # None => body.block_url_present
     /\ body.block_url_present => body.name = "Games"
     /\ body.block_url_present =>
          body.blocked = None /\ body.schedule = None
     /\ body.blocked = None \/ body.schedule = None}
  \cup {CategoryBody("", None, FALSE, None, None)}

\* The settings and overrides tables are written by no handler: the
\* allowlist and the redirect are what the database file came with.
InitDecide ==
  /\ Boot
  /\ BootMem
  /\ eval = NoEval
  /\ call = NoCall
  /\ db \in {SeededDb,
             [SeededDb EXCEPT
                !.allowlist = <<"khan">>,
                !.blocked_redirect = Some("https://redirect.example")]}

NextDecide ==
  \/ /\ \E body \in CategoryBodies : categories(body)
     /\ call' = [at |-> "categories"]
     /\ UNCHANGED <<d, scenes, clock, nextId, req, threads, histVars, eval,
                   memVars>>
  \* The pages cannot be fetched.
  \/ \E url \in Pages, html \in PageHtmls, lt \in DecideTimes,
        net \in {r \in Responses : r.raises} :
       /\ api_classify(url, html, net, lt)
       /\ call' = [at |-> "api_classify", url |-> url, html |-> html,
                   net |-> net, lt |-> lt]
       /\ UNCHANGED <<d, scenes, clock, nextId, req, threads, histVars, eval,
                   memVars>>

SpecDecide == InitDecide /\ [][NextDecide]_vars

\* The last request was a classify request, and resp is its decision.
Decided == call.at = "api_classify"

\* The schedule on file for a category, if one is and it is not empty.
HasSchedule(name) ==
  db.schedules[name] # None /\ JsonTruthy(db.schedules[name][1])

\* A category's schedule says active if it has one, else its flag is set.
On(name) ==
  IF HasSchedule(name)
    THEN _is_schedule_active(db.schedules[name][1], call.lt)
  ELSE db.categories[name].blocked

\* The url holds an allowlist entry or an always-allowed domain.
UrlAllowed ==
  call.url.allow \cap
    ({db.allowlist[i] : i \in DOMAIN db.allowlist} \cup AlwaysAllowed) # {}

\* C15 as stated: the decision of a category with a schedule on file is
\* what the schedule says, whatever the category's flag; with no schedule
\* on file the flag decides.
C15_ScheduleDecides ==
  Decided =>
    LET c == resp.result.category
    IN /\ HasSchedule(c) =>
            resp.blocked = _is_schedule_active(db.schedules[c][1], call.lt)
       /\ db.schedules[c] = None => resp.blocked = db.categories[c].blocked

\* C15 amended: the same while Global Block All is not active, an empty
\* schedule on file counting as none.
C15_ScheduleDecidesUnlessGlobal ==
  (Decided /\ ~On("Global Block All")) =>
    LET c == resp.result.category
    IN /\ HasSchedule(c) =>
            resp.blocked = _is_schedule_active(db.schedules[c][1], call.lt)
       /\ ~HasSchedule(c) => resp.blocked = db.categories[c].blocked

\* A blocked category with a schedule that says inactive is decided not
\* blocked, and an unblocked one with a schedule that says active, blocked.
C15_Witness ==
  /\ Decided
  /\ ~On("Global Block All")
  /\ resp.result.category = "Games"
  /\ HasSchedule("Games")
  /\ db.categories["Games"].blocked # resp.blocked

\* The decision, had the classified category the flag b and the schedule
\* row sc on file, all else as it is.
DecisionWith(b, sc) ==
  LET c == resp.result.category
  IN Decide([db EXCEPT !.categories[c].blocked = b, !.schedules[c] = sc],
            call.url, call.html, call.net, call.lt)

\* C16 as stated: while Global Block All is active, the decision is the
\* same whatever the flag and the schedule of the classified category,
\* also for a url that is allowed.
C16_GlobalShortCircuit ==
  (Decided /\ On("Global Block All")) =>
    \A b \in BOOLEAN, sc \in {None} \cup {Some(x) : x \in PostedSchedules} :
      DecisionWith(b, sc).blocked = resp.blocked

\* C17: while Global Block All is active (its schedule says so if one is on
\* file, else its flag is set), a url that is not allowed is decided
\* blocked, whatever its category.
C17_GlobalBlocks ==
  (Decided /\ On("Global Block All") /\ ~UrlAllowed) => resp.blocked

\* Global Block All is active by its schedule, its flag clear; the page is
\* of a category that is not blocked, and the decision is blocked.
C17_Witness ==
  /\ Decided
  /\ HasSchedule("Global Block All")
  /\ On("Global Block All")
  /\ ~db.categories["Global Block All"].blocked
  /\ ~UrlAllowed
  /\ ~On(resp.result.category)
  /\ resp.blocked

\* C18 as stated: the block_url of every decision is that of the classified
\* category when it has one, and the default redirect otherwise.
C18_BlockUrl ==
  Decided =>
    LET row == db.categories[resp.result.category]
    IN resp.block_url =
         IF row.block_url \notin {None, Some("")} THEN row.block_url[1]
         ELSE Get(db.blocked_redirect, DefaultRedirect)

\* ------------------------------------------- the categories table's rows
\* gschool.db as a new file has it, or as a file written before "Global
\* Block All" was a category has it.
InitCategories ==
  /\ Boot
  /\ BootMem
  /\ eval = NoEval
  /\ call = NoCall
  /\ db \in {SeededDb,
             [SeededDb EXCEPT
                !.categories =
                   [c \in CategoryNames \ {"Global Block All"} |-> @[c]]]}

\* Updates of "Games" and of "Clubs", which is no name of CATEGORIES, with
\* any of the fields; updates with no name; a classify request.
NextCategories ==
  \/ \E body \in [name : {"", "Games", "Clubs"},
                  blocked : {None, Some(FALSE), Some(TRUE)},
                  block_url_present : BOOLEAN,
                  block_url : {None, Some("https://games.example")},
                  schedule : {None, Some(EmptyJson), Some(AllDay)}] :
       /\ body.block_url # None => body.block_url_present
       /\ categories(body)
       /\ call' = [at |-> "categories", body |-> body]
       /\ UNCHANGED <<d, scenes, clock, nextId, req, threads, histVars, eval,
                   memVars>>
  \/ \E url \in {UrlOf({"roblox"}, {}, {}, FALSE, FALSE, FALSE, {})},
        net \in {r \in Responses : r.raises}, lt \in DecideTimes :
       /\ api_classify(url, None, net, lt)
       /\ call' = [at |-> "api_classify", url |-> url, html |-> None,
                   net |-> net, lt |-> lt]
       /\ UNCHANGED <<d, scenes, clock, nextId, req, threads, histVars, eval,
                   memVars>>

SpecCategories == InitCategories /\ [][NextCategories]_vars

\* C26: after a request, whichever, every name of CATEGORIES has a row in
\* the categories table, and every name that had a row before has one.
C26_NeverDeleted ==
  [][/\ CategoryNames \subseteq DOMAIN db'.categories
     /\ DOMAIN db.categories \subseteq DOMAIN db'.categories]_vars

\* "Clubs" has been added, "Games" blocked and given a schedule and a
\* block_url, and the file began without "Global Block All".
C26_Witness ==
  /\ DOMAIN db.categories = CategoryNames \cup {"Clubs"}
  /\ db.categories["Games"].blocked
  /\ db.categories["Games"].block_url # None
  /\ db.schedules["Games"] # None
  /\ call.at = "api_classify"

\* C27: an update with a name leaves the blocked flag of the category as
\* it was when blocked is absent or null, its block_url when block_url is
\* absent, its schedule when schedule is absent or null, and every other
\* category as it was; an update with no name is answered with an error
\* and changes nothing.
C27_OnlyProvidedFields ==
  [][call'.at = "categories" =>
       LET body == call'.body
           name == body.name
           was == ensure_schema(db)
           Sched(store, n) ==
             IF n \in DOMAIN store.schedules THEN store.schedules[n]
             ELSE None
       IN IF name = ""
            THEN resp'.status = 400 /\ db' = was
          ELSE
            /\ (body.blocked = None /\ name \in DOMAIN was.categories) =>
                 db'.categories[name].blocked = was.categories[name].blocked
            /\ (~body.block_url_present /\ name \in DOMAIN was.categories)
                 => db'.categories[name].block_url
                      = was.categories[name].block_url
            /\ body.schedule = None => Sched(db', name) = Sched(was, name)
            /\ \A n \in (DOMAIN db'.categories) \ {name} :
                 /\ n \in DOMAIN was.categories
                 /\ db'.categories[n] = was.categories[n]
            /\ \A n \in (DOMAIN db'.schedules) \ {name} :
                 Sched(db', n) = Sched(was, n)
            /\ db'.allowlist = was.allowlist
            /\ db'.blocked_redirect = was.blocked_redirect]_vars

\* An update of the schedule of "Games" alone has left it blocked with its
\* block_url.
C27_Witness ==
  /\ call.at = "categories"
  /\ call.body.name = "Games"
  /\ call.body.blocked = None
  /\ ~call.body.block_url_present
  /\ call.body.schedule = Some(AllDay)
  /\ db.categories["Games"].blocked
  /\ db.categories["Games"].block_url = Some("https://games.example")
  /\ db.schedules["Games"] = Some(AllDay)

\* ------------------------------------------- load_data on any data.json
\* A JSON object is a function from its keys to what the code asks of the
\* values: "wrong" is a value that is no dict, "empty" a dict or a list
\* with nothing in it, "full" one that holds what ensure_keys would put in
\* it ("chat_enabled" for settings, "period1" for classes).
RequiredKeys ==
  {"settings", "classes", "categories", "pending_commands",
   "pending_per_student", "presence", "history", "screenshots", "alerts",
   "dm", "audit", "extension_enabled"}

\* _safe_default_data() of app.py, which has no "extension_enabled".
DefaultObject ==
  [k \in RequiredKeys \ {"extension_enabled"} |->
     IF k \in {"settings", "classes"} THEN "full" ELSE "empty"]

\* ensure_keys(d) of app.py on any dict: None when it raises, which it does
\* on a "settings" or a "classes" that has no setdefault.
EnsureKeys(obj) ==
  IF \E k \in {"settings", "classes"} \cap DOMAIN obj : obj[k] = "wrong"
    THEN None
  ELSE Some([k \in DOMAIN obj \cup RequiredKeys |->
               IF k \in {"settings", "classes"} THEN "full"
               ELSE IF k \in DOMAIN obj THEN obj[k] ELSE "empty"])

RECURSIVE Stitch(_, _)
\* d.update(item) for each item of the list that is a dict
Stitch(obj, items) ==
  IF items = <<>> THEN obj
  ELSE LET item == Head(items)
           next == IF ~item.isdict THEN obj
                   ELSE [k \in DOMAIN obj \cup DOMAIN item.obj |->
                           IF k \in DOMAIN item.obj THEN item.obj[k]
                           ELSE obj[k]]
       IN Stitch(next, Tail(items))

\* _coerce_to_dict(obj), of a parsed value
_coerce_to_dict(json) ==
  CASE json.type = "dict" -> json.items[1].obj
    [] json.type = "list" -> Stitch(DefaultObject, json.items)
    [] OTHER -> DefaultObject

\* A data.json that holds the object obj.
FileOf(obj) ==
  [kind |-> "json", type |-> "dict",
   items |-> <<[isdict |-> TRUE, obj |-> obj]>>]

\* Mutant of LoadData: only the JSONDecodeError is caught.
LoadData_uncaught(file) ==
  CASE file.kind = "missing" ->
         [raised |-> FALSE, doc |-> EnsureKeys(DefaultObject),
          file |-> FileOf(EnsureKeys(DefaultObject)[1])]
    [] file.kind = "json" ->
         [raised |-> EnsureKeys(_coerce_to_dict(file)) = None,
          doc |-> EnsureKeys(_coerce_to_dict(file)), file |-> file]
    [] file.kind = "concatenated"
       /\ EnsureKeys(Stitch(DefaultObject, file.items)) # None ->
         [raised |-> FALSE,
          doc |-> EnsureKeys(Stitch(DefaultObject, file.items)),
          file |-> FileOf(EnsureKeys(Stitch(DefaultObject, file.items))[1])]
    [] file.kind = "unreadable" ->
         [raised |-> TRUE, doc |-> None, file |-> file]
    [] OTHER ->
         [raised |-> FALSE, doc |-> EnsureKeys(DefaultObject),
          file |-> FileOf(EnsureKeys(DefaultObject)[1])]

\* load_data() of app.py on any data.json: whether it raises, the document
\* it returns, and the file as it leaves it.
LoadData(file) ==
  CASE file.kind = "missing" ->
         \* save_data(d) runs ensure_keys on d itself
         [raised |-> FALSE, doc |-> EnsureKeys(DefaultObject),
          file |-> FileOf(EnsureKeys(DefaultObject)[1])]
    [] file.kind = "json" ->
         \* except Exception: ensure_keys(_safe_default_data())
         [raised |-> FALSE,
          doc |-> IF EnsureKeys(_coerce_to_dict(file)) # None
                    THEN EnsureKeys(_coerce_to_dict(file))
                  ELSE EnsureKeys(DefaultObject),
          file |-> file]
    [] file.kind = "concatenated"
       /\ EnsureKeys(Stitch(DefaultObject, file.items)) # None ->
         \* "}{" repaired into a list, stitched, saved
         [raised |-> FALSE,
          doc |-> EnsureKeys(Stitch(DefaultObject, file.items)),
          file |-> FileOf(EnsureKeys(Stitch(DefaultObject, file.items))[1])]
    [] file.kind = "unreadable" ->
         \* open or the decoding raises what is no JSONDecodeError
         [raised |-> FALSE, doc |-> EnsureKeys(DefaultObject), file |-> file]
    [] OTHER ->
         \* the repair raises: the default document, saved
         [raised |-> FALSE, doc |-> EnsureKeys(DefaultObject),
          file |-> FileOf(EnsureKeys(DefaultObject)[1])]

\* The data.json files of the model: none; an object with any of three keys
\* in any of the three conditions; a list of up to two fragments, some of
\* them no dicts; a value that is neither; two fragments one after the
\* other; text that cannot be repaired; a file that cannot be decoded.
Files ==
  LET Objects ==
        UNION {[S -> {"wrong", "empty", "full"}] :
                 S \in SUBSET {"settings", "classes", "pending_per_student"}}
      Fragments ==
        {[isdict |-> FALSE, obj |-> [settings |-> "wrong"]],
         [isdict |-> TRUE, obj |-> [settings |-> "wrong"]],
         [isdict |-> TRUE, obj |-> [classes |-> "empty"]],
         [isdict |-> TRUE,
          obj |-> [classes |-> "full", pending_per_student |-> "full"]]}
      Lists == {<<>>} \cup {<<a>> : a \in Fragments}
                 \cup {<<a, b>> : a \in Fragments, b \in Fragments}
  IN {FileOf(o) : o \in Objects}
     \cup [kind : {"json"}, type : {"list"}, items : Lists]
     \cup [kind : {"concatenated"}, type : {"text"},
           items : {<<a, b>> : a \in Fragments, b \in Fragments}]
     \cup [kind : {"missing", "garbage", "unreadable"}, type : {"text"},
           items : {<<>>}]
     \cup [kind : {"json"}, type : {"value"}, items : {<<>>}]

InitLoad ==
  /\ Boot
  /\ BootMem
  /\ eval = NoEval
  /\ db = SeededDb
  /\ call \in [at : {"asked"}, file : Files, was : {"missing"},
               raised : {FALSE}, doc : {None}]

NextLoad ==
  \/ /\ call.at = "asked"
     /\ call' = [at |-> "loaded", file |-> LoadData(call.file).file,
                 was |-> call.file.kind,
                 raised |-> LoadData(call.file).raised,
                 doc |-> LoadData(call.file).doc]
     /\ UNCHANGED <<progVars, histVars, eval, db, memVars>>
  \* The next request loads the file as this one left it.
  \/ /\ call.at = "loaded"
     /\ call' = [call EXCEPT !.at = "asked", !.was = "missing",
                             !.raised = FALSE, !.doc = None]
     /\ UNCHANGED <<progVars, histVars, eval, db, memVars>>

SpecLoad == InitLoad /\ [][NextLoad]_vars

\* C28: whatever data.json is, load_data raises nothing and returns a
\* mapping with every required top-level key, a settings mapping and a
\* classes mapping with "period1" in it; it is the default document when
\* the file is missing or cannot be repaired.
C28_LoadNeverFails ==
  call.at = "loaded" =>
    /\ ~call.raised
    /\ call.doc # None
    /\ RequiredKeys \subseteq DOMAIN call.doc[1]
    /\ call.doc[1]["settings"] = "full"
    /\ call.doc[1]["classes"] = "full"
    /\ call.was \in {"missing", "garbage", "unreadable"} =>
         \A k \in RequiredKeys :
           call.doc[1][k] = IF k \in {"settings", "classes"} THEN "full"
                            ELSE "empty"

\* An object whose settings are no mapping has been loaded: the default
\* document is returned, and the file is as it was.
C28_Witness ==
  /\ call.at = "loaded"
  /\ call.was = "json"
  /\ call.file.type = "dict"
  /\ "settings" \in DOMAIN call.file.items[1].obj
  /\ call.file.items[1].obj["settings"] = "wrong"
  /\ call.doc = EnsureKeys(DefaultObject)

\* --------------------------------------------- presentation signaling
\* re.sub(r'[^a-zA-Z0-9_-]+', '', name) on the sampled room and client names.
clean(raw) ==
  CASE raw = "r.1" -> "r1"
    [] OTHER       -> raw

RawRooms == Rooms \cup {"r.1"}
\* The <side> of the path: side.lower().startswith("v") makes it the viewer.
RawSides == {"Viewer", "teacher"}

OtherSide(side) == IF side = "viewer" THEN "teacher" ELSE "viewer"
BucketOf(side) == IF side = "viewer" THEN "cand_v" ELSE "cand_t"

\* POST /api/present/<room>/end
api_present_end(raw_room) ==
  /\ PRESENT' = [PRESENT EXCEPT ![clean(raw_room)] = EmptyRoom]
  /\ resp' = Ok
  /\ UNCHANGED <<d, scenes, clock, nextId, threads>>

\* Mutant of api_present_candidate: a GET reads the bucket of its own side.
api_present_candidate_own(method, raw_room, raw_side, raw_client, n) ==
  LET room == clean(raw_room)
      client_id == clean(raw_client)
      side == IF raw_side = "Viewer" THEN "viewer" ELSE "teacher"
      bucket_from == BucketOf(side)
      cands == [i \in 1..n |-> nextId + i]
  IN IF method = "POST"
       THEN /\ nextId + n <= MaxCmds
            /\ PRESENT' = [PRESENT EXCEPT ![room][bucket_from][client_id] =
                             @ \o cands]
            /\ nextId' = nextId + n
            /\ resp' = Ok
            /\ UNCHANGED <<d, scenes, clock, threads>>
       ELSE /\ resp' = [status |-> 200, ok |-> TRUE,
                        candidates |-> PRESENT[room][bucket_from][client_id]]
            /\ PRESENT' = [PRESENT EXCEPT ![room][bucket_from][client_id] =
                             <<>>]
            /\ UNCHANGED <<d, scenes, clock, nextId, threads>>

\* POST and GET /api/present/<room>/candidate/<side>/<client_id>; the body
\* of a POST carries n candidates, numbered in the order they are posted.
api_present_candidate(method, raw_room, raw_side, raw_client, n) ==
  LET room == clean(raw_room)
      client_id == clean(raw_client)
      side == IF raw_side = "Viewer" THEN "viewer" ELSE "teacher"
      bucket_from == BucketOf(side)
      bucket_to == BucketOf(OtherSide(side))
      cands == [i \in 1..n |-> nextId + i]
  IN IF method = "POST"
       THEN /\ nextId + n <= MaxCmds
            /\ PRESENT' = [PRESENT EXCEPT ![room][bucket_from][client_id] =
                             @ \o cands]
            /\ nextId' = nextId + n
            /\ resp' = Ok
            /\ UNCHANGED <<d, scenes, clock, threads>>
       ELSE /\ resp' = [status |-> 200, ok |-> TRUE,
                        candidates |-> PRESENT[room][bucket_to][client_id]]
            /\ PRESENT' = [PRESENT EXCEPT ![room][bucket_to][client_id] =
                             <<>>]
            /\ UNCHANGED <<d, scenes, clock, nextId, threads>>

\* A signaling request, its room, side and client id as the handler reads
\* them.
PresentReq(op, method, raw_room, raw_side, raw_client) ==
  [op |-> op, method |-> method, target |-> "", room |-> clean(raw_room),
   side |-> IF raw_side = "Viewer" THEN "viewer" ELSE "teacher",
   client_id |-> clean(raw_client)]

\* Candidates of a room that sit in one of its buckets.
Waiting(room) ==
  UNION {Range(PRESENT[room][b][c]) : b \in {"cand_v", "cand_t"}, c \in Clients}

\* History of the candidates, r being the request handled: who posted each,
\* how often a GET returned it, and which were in a room when it was ended.
\* req keeps the GETs and forgets the other requests.
ObservePresent(r) ==
  /\ req' = IF r.method = "GET" THEN r ELSE Other
  /\ origin' = [i \in 1..nextId' |-> IF i <= nextId THEN origin[i] ELSE r]
  /\ delivered' = [i \in 1..nextId' |->
                     LET old == IF i <= nextId THEN delivered[i] ELSE 0
                     IN IF r.op = "api_present_candidate" /\ r.method = "GET"
                           /\ i \in Range(resp'.candidates) /\ old < 2
                          THEN old + 1 ELSE old]
  /\ cleared' = IF r.op = "api_present_end"
                  THEN cleared \cup Waiting(r.room) ELSE cleared
  /\ UNCHANGED <<sincePolicy, sincePoll, lastPolicy, prevCurrent, aiVars,
                 audit>>

NextPresent ==
  \/ \E room \in RawRooms, side \in RawSides, client \in Clients,
        n \in {0, 1, 2} :
       /\ api_present_candidate("POST", room, side, client, n)
       /\ ObservePresent(PresentReq("api_present_candidate", "POST", room,
                                    side, client))
  \/ \E room \in RawRooms, side \in RawSides, client \in Clients :
       /\ api_present_candidate("GET", room, side, client, 0)
       /\ ObservePresent(PresentReq("api_present_candidate", "GET", room,
                                    side, client))
  \/ \E room \in RawRooms :
       /\ api_present_end(room)
       /\ ObservePresent(PresentReq("api_present_end", "POST", room,
                                    "teacher", ""))

SpecPresent == Init /\ [][NextPresent]_vars

\* Candidates posted by the other side of r, in r's room and for r's client
\* id, that no GET has returned.
PostedFor(r) ==
  {i \in 1..nextId :
     /\ origin[i].room = r.room
     /\ origin[i].client_id = r.client_id
     /\ origin[i].side = OtherSide(r.side)
     /\ delivered[i] = 0}

\* cands is the set S, each once, in the order posted.
InPostingOrder(cands, S) ==
  /\ Range(cands) = S
  /\ \A k \in 1..(Len(cands) - 1) : cands[k] < cands[k + 1]

\* C32 as claimed: a GET of a side returns, in posting order, exactly the
\* candidates the other side posted in that room for that client id since
\* this side's previous GET, that is those no earlier GET returned.
C32_CandidatesRouted ==
  [][(req'.op = "api_present_candidate" /\ req'.method = "GET") =>
       InPostingOrder(resp'.candidates, PostedFor(req'))]_vars

\* C32 amended: a GET of a side returns, in posting order, exactly the
\* candidates the other side posted in that room for that client id that
\* no earlier GET returned and that were not in the room when it was last
\* ended: api_present_end discards the candidates waiting in the room.
C32_CandidatesRoutedUnlessEnded ==
  [][(req'.op = "api_present_candidate" /\ req'.method = "GET") =>
       InPostingOrder(resp'.candidates, PostedFor(req') \ cleared)]_vars

\* C32 witness: the viewer posted candidate 1 for c1 in r1, the room was
\* ended, the viewer posted candidate 2, and the teacher's GET returned
\* candidate 2 alone.
C32_Witness ==
  /\ req.op = "api_present_candidate" /\ req.method = "GET"
  /\ req.side = "teacher" /\ req.room = "r1" /\ req.client_id = "c1"
  /\ nextId = 2
  /\ origin[1] = origin[2]
  /\ origin[1].side = "viewer" /\ origin[1].room = "r1"
  /\ origin[1].client_id = "c1"
  /\ cleared = {1}
  /\ resp.candidates = <<2>>

====
